---- MODULE Spec2Model ----
(***************************************************************************)
(* Buffer pool manager, LRU-K replacer and disk scheduler of the BusTub    *)
(* storage layer (src/buffer/buffer_pool_manager.cpp,                      *)
(* src/buffer/lru_k_replacer.cpp, src/storage/disk/disk_scheduler.cpp).    *)
(*                                                                         *)
(* The BPM latch is held over whole critical sections, so a critical       *)
(* section is one action; FlushFrame and ReadFrame release the latch while *)
(* the request is with the disk scheduler, so they split an operation in   *)
(* two actions with the worker's I/O step in between.                      *)
(***************************************************************************)
EXTENDS Integers, Sequences, FiniteSets, TLC

\* ---------------------------------------------------------------- bounds
PoolSize == 2
MaxPageId == 3
MaxCalls == 7
MaxWarmCalls == 5
MaxSeqCalls == 9
NumThreads == 2
MaxData == 1
ReplFrames == 3
MaxK == 2
MaxReplCalls == 8
MaxRequests == 3
MaxWorkers == 2
MaxGuards == 3
MaxGuardCalls == 6
MaxKey == 4
MaxValue == 2
MaxHashCalls == 5
MaxRoom == 2
MaxHeaderDepth == 1
MaxDirDepth == 2
MaxBucketSize == 2
HashBits == 8
MaxDrainCalls == 8
HeapFrames == 6
MaxHeapCalls == 2
MaxDirCalls == 6
MaxConcKey == 2
MaxConcCalls == 4
\* ------------------------------------------------------- program constants
replacer_k == 2
\* size_t is modelled 16 bits wide: only the order of k-distances matters and
\* timestamps stay far below INF.
SIZE_MAX == 65535
INF == SIZE_MAX \div 2
INVALID_PAGE_ID == -1

Frames == 0 .. (PoolSize - 1)
PageIds == 0 .. (MaxPageId - 1)
Threads == 1 .. NumThreads
Data == 0 .. MaxData

\* Raw values of the union Pos {list_ptr_, heap_pos_}: 0 is nullptr (and heap
\* position 0), LIST_PTR is the address of the frame's own live ListNode, a
\* value n >= 1 is heap position n (as a pointer: an address that is no node).
LIST_PTR == -1

\* ============================ LRUKNode ==================================
QUEUE_SIZE(start, end, k) == ((end - start) + (k + 1)) % (k + 1)
QUEUE_POS(pos, k) == pos % (k + 1)

\* LRUKNode::LRUKNode(k): history_(k + 1), k_(k), k_distance_ = INF
NewNode(k) ==
  [history |-> [i \in 0 .. k |-> 0], start |-> 0, end |-> 0,
   k_distance |-> INF, k |-> k, is_evictable |-> FALSE]

NodeInit(n, k) ==
  [n EXCEPT !.start = 0, !.end = 0, !.k = k, !.k_distance = SIZE_MAX,
            !.is_evictable = FALSE]

Access(n, timestamp) ==
  LET start1 == IF QUEUE_SIZE(n.start, n.end, n.k) = n.k
                THEN QUEUE_POS(n.start + 1, n.k) ELSE n.start
      hist1 == [n.history EXCEPT ![n.end] = timestamp]
      end1 == QUEUE_POS(n.end + 1, n.k)
      kd == IF QUEUE_SIZE(start1, end1, n.k) < n.k
            THEN SIZE_MAX - hist1[start1]
            ELSE INF - hist1[start1]
  IN [n EXCEPT !.start = start1, !.history = hist1, !.end = end1,
               !.k_distance = kd]

Valid(n) == n.k # INF
SetInvalid(n) == [n EXCEPT !.k = INF]

\* ============================ LRUKImpl ==================================
\* A replacer is a record
\*   node_store, r_heap (r_heap_[1 .. r_heap_[0]]), f_list (head first),
\*   frame_pos_map, frame_pos_type, current_timestamp, curr_size, crashed.
\* crashed: the call dereferenced a pointer that is no list node (nullptr or
\* a heap position read through the union) or failed a BUSTUB_ASSERT.
KDistance(r, f) == r.node_store[f].k_distance

Push2List(r, frame_id) ==
  [r EXCEPT !.f_list = Append(@, frame_id),
            !.frame_pos_map[frame_id] = LIST_PTR]

RECURSIVE ListEvictFrom(_, _)
ListEvictFrom(r, i) ==
  IF i > Len(r.f_list) THEN -1
  ELSE IF r.node_store[r.f_list[i]].is_evictable THEN r.f_list[i]
  ELSE ListEvictFrom(r, i + 1)

ListEvict(r) == ListEvictFrom(r, 1)

SeqWithout(s, x) == SelectSeq(s, LAMBDA y : y # x)

\* node_ptr is the raw pointer value, frame_id the frame it was taken from
RemoveFromList(r, node_ptr, frame_id) ==
  IF node_ptr # LIST_PTR THEN [r EXCEPT !.crashed = TRUE]
  ELSE [r EXCEPT !.f_list = SeqWithout(@, frame_id),
                 !.frame_pos_map[frame_id] = 0]

RECURSIVE AmendHeapFrom(_, _)
AmendHeapFrom(r, cur_pos) ==
  LET n == Len(r.r_heap)
      left == 2 * cur_pos
  IN IF left > n THEN r
     ELSE LET next_pos ==
                IF left < n /\ KDistance(r, r.r_heap[left]) < KDistance(r, r.r_heap[left + 1])
                THEN left + 1 ELSE left
              cur_frame == r.r_heap[cur_pos]
              next_frame == r.r_heap[next_pos]
          IN IF KDistance(r, cur_frame) > KDistance(r, next_frame) THEN r
             ELSE AmendHeapFrom(
                    [r EXCEPT !.frame_pos_map[cur_frame] = r.frame_pos_map[next_frame],
                              !.frame_pos_map[next_frame] = r.frame_pos_map[cur_frame],
                              !.r_heap[cur_pos] = next_frame,
                              !.r_heap[next_pos] = cur_frame],
                    next_pos)

AmendHeap(r, pos) == AmendHeapFrom(r, pos)

RECURSIVE SiftUp(_, _, _)
SiftUp(r, frame_id, cur_pos) ==
  LET parent_pos == cur_pos \div 2
  IN IF parent_pos > 0 /\ KDistance(r, frame_id) > KDistance(r, r.r_heap[parent_pos])
     THEN SiftUp([r EXCEPT !.r_heap[cur_pos] = r.r_heap[parent_pos],
                           !.frame_pos_map[r.r_heap[parent_pos]] = cur_pos],
                 frame_id, parent_pos)
     ELSE [r EXCEPT !.r_heap[cur_pos] = frame_id,
                    !.frame_pos_type[frame_id] = 0,
                    !.frame_pos_map[frame_id] = cur_pos]

Push2Heap(r, frame_id, new_entry) ==
  IF new_entry
  THEN SiftUp([r EXCEPT !.r_heap = Append(@, frame_id)], frame_id, Len(r.r_heap) + 1)
  ELSE AmendHeap(r, r.frame_pos_map[frame_id])

\* One level of the breadth-first search: queue[i ..] still to visit, temp the
\* next level collected so far.
RECURSIVE HeapEvictScan(_, _, _, _, _, _)
HeapEvictScan(r, queue, i, temp, max_distance, max_frame) ==
  IF i > Len(queue)
  THEN IF temp = <<>> THEN max_frame
       ELSE HeapEvictScan(r, temp, 1, <<>>, max_distance, max_frame)
  ELSE LET cur_frame == r.r_heap[queue[i]]
           n == Len(r.r_heap)
           l == 2 * queue[i]
           t1 == IF l <= n /\ KDistance(r, r.r_heap[l]) > max_distance
                 THEN Append(temp, l) ELSE temp
           t2 == IF l + 1 <= n /\ KDistance(r, r.r_heap[l + 1]) > max_distance
                 THEN Append(t1, l + 1) ELSE t1
       IN IF r.node_store[cur_frame].is_evictable
          THEN IF KDistance(r, cur_frame) > max_distance
               THEN HeapEvictScan(r, queue, i + 1, temp, KDistance(r, cur_frame), cur_frame)
               ELSE HeapEvictScan(r, queue, i + 1, temp, max_distance, max_frame)
          ELSE HeapEvictScan(r, queue, i + 1, t2, max_distance, max_frame)

HeapEvict(r) == HeapEvictScan(r, <<1>>, 1, <<>>, 0, -1)

RemoveFromHeap(r, pos) ==
  LET remove_frame == r.r_heap[pos]
      cur_frame == r.r_heap[Len(r.r_heap)]
      r1 == [r EXCEPT !.frame_pos_type[remove_frame] = 1,
                      !.frame_pos_map[remove_frame] = 0]
      r2 == [r1 EXCEPT !.r_heap[pos] = cur_frame,
                       !.frame_pos_map[cur_frame] = pos]
      r3 == [r2 EXCEPT !.r_heap = SubSeq(@, 1, Len(@) - 1)]
  IN AmendHeap(r3, pos)

Push(r, frame_id) ==
  IF r.frame_pos_type[frame_id] # 0
  THEN IF r.frame_pos_map[frame_id] = 0 THEN Push2List(r, frame_id)
       ELSE IF KDistance(r, frame_id) < INF
            THEN LET r1 == RemoveFromList(r, r.frame_pos_map[frame_id], frame_id)
                 IN IF r1.crashed THEN r1 ELSE Push2Heap(r1, frame_id, TRUE)
            ELSE r
  ELSE Push2Heap(r, frame_id, FALSE)

\* Pop returns [r |-> replacer after the call, frame |-> evicted frame or -1]
Pop(r) ==
  LET lf == IF Len(r.f_list) > 0 THEN ListEvict(r) ELSE -1
  IN IF lf # -1
     THEN [r |-> RemoveFromList(r, LIST_PTR, lf), frame |-> lf]
     ELSE LET hf == IF Len(r.r_heap) > 0 THEN HeapEvict(r) ELSE -1
          IN IF hf # -1
             THEN [r |-> RemoveFromHeap(r, r.frame_pos_map[hf]), frame |-> hf]
             ELSE [r |-> r, frame |-> -1]

ImplRemove(r, frame_id) ==
  IF r.frame_pos_type[frame_id] # 0
  THEN RemoveFromList(r, r.frame_pos_map[frame_id], frame_id)
  ELSE RemoveFromHeap(r, r.frame_pos_map[frame_id])

\* ============================ LRUKReplacer ==============================
NewReplacer(num_frames, k) ==
  [node_store |-> [f \in 0 .. (num_frames - 1) |-> NewNode(k)],
   r_heap |-> <<>>,
   f_list |-> <<>>,
   frame_pos_map |-> [f \in 0 .. (num_frames - 1) |-> 0],
   frame_pos_type |-> [f \in 0 .. (num_frames - 1) |-> 1],
   current_timestamp |-> 0,
   curr_size |-> 0,
   k |-> k,
   crashed |-> FALSE]

\* Evict returns [r |-> ..., frame |-> victim or -1 when it returns false]
Evict(r) ==
  IF r.curr_size > 0
  THEN LET p == Pop(r)
       IN IF p.frame # -1
          THEN [r |-> [p.r EXCEPT !.node_store[p.frame] = SetInvalid(@),
                                  !.curr_size = (@ - 1) % (SIZE_MAX + 1)],
                frame |-> p.frame]
          ELSE [r |-> r, frame |-> -1]
  ELSE [r |-> r, frame |-> -1]

RecordAccess(r, frame_id) ==
  LET node0 == r.node_store[frame_id]
      node1 == IF ~Valid(node0) THEN NodeInit(node0, r.k) ELSE node0
      ts == r.current_timestamp + 1
      r1 == [r EXCEPT !.node_store[frame_id] = Access(node1, ts),
                      !.current_timestamp = ts]
  IN Push(r1, frame_id)

SetEvictable(r, frame_id, set_evictable) ==
  IF set_evictable # r.node_store[frame_id].is_evictable
  THEN [r EXCEPT !.node_store[frame_id].is_evictable = set_evictable,
                 !.curr_size = IF set_evictable THEN (@ + 1) % (SIZE_MAX + 1)
                               ELSE (@ - 1) % (SIZE_MAX + 1)]
  ELSE r

Remove(r, frame_id) ==
  IF ~r.node_store[frame_id].is_evictable THEN [r EXCEPT !.crashed = TRUE]
  ELSE IF Valid(r.node_store[frame_id])
       THEN LET r1 == ImplRemove([r EXCEPT !.node_store[frame_id] = SetInvalid(@)], frame_id)
            IN [r1 EXCEPT !.curr_size = (@ - 1) % (SIZE_MAX + 1)]
       ELSE r

Size(r) == r.curr_size

\* ========================= BufferPoolManager ============================
VARIABLES
  pages,          \* pages_[f]: page_id, pin_count, is_dirty, data
  page_table,     \* page_table_: page id -> frame, -1 when there is no entry
  free_list,      \* free_list_
  replacer,       \* replacer_
  next_page_id,   \* next_page_id_
  avaliable,      \* avaliable_[f].second
  disk,           \* the disk manager's pages
  request_queue,  \* the disk scheduler's channel
  done,           \* done[t]: the future of thread t's request is ready
  pc,             \* where each calling thread is inside its BPM call
  loc,            \* the call's locals: frame_id, page_id and the victim's old page
  wb,             \* wb[t]: what the worker did for thread t's last request
  holds,          \* holds[t][p]: the frame pointer thread t got for page p, -1 if none
  wrote,          \* wrote[t]: pages thread t modified and has not unpinned yet
  logical,        \* logical[p]: bytes last written to p by a holder, -1 if none
  last,           \* the return made by the step just taken, if it was one
  calls,          \* number of BPM calls the callers may still make
  aborted,        \* the process has aborted (assertion, segmentation fault)
  ref_hist,       \* ref_hist[f]: the times of f's accesses since it was last untracked
  evicted,        \* the frame the Evict call just made returned, -1 if none
  variant,        \* which disk scheduler is running: one worker or a pool
  stop,           \* stop_
  worker,         \* worker[w]: where worker w is in its loop and the request it took
  io_count,       \* io_count[r]: how many times request r's disk I/O was performed
  promise,        \* promise[r]: callback_.set_value(true) was called for request r
  scheduled,      \* number of Schedule calls made; they passed requests 1 .. scheduled
  dtor,           \* the scheduler's destructor has run its body
  guard,          \* guard[g]: the page guard object in slot g
  rwlatch,        \* rwlatch[f]: the readers and the writer of frame f's rwlatch_
  tally,          \* counts of pins, unpins, latches and unlatches made through guards
  table,          \* table[p + 1]: the header, directory or bucket kept in page p
  expect,         \* expect[k]: the value the callers' successful calls left for key k
  config,         \* the table's header_max_depth_, directory_max_depth_, bucket_max_size_
  call            \* call[t]: where thread t is in its hash table call, its locals and latches

vars == <<pages, page_table, free_list, replacer, next_page_id, avaliable, disk,
          request_queue, done, pc, loc, wb, holds, wrote, logical, last, calls, aborted,
          ref_hist, evicted, variant, stop, worker, io_count, promise, scheduled, dtor,
          guard, rwlatch, tally, table, expect, config, call>>

replVars == <<ref_hist, evicted>>
schedVars == <<variant, stop, worker, io_count, promise, scheduled, dtor>>
guardVars == <<guard, rwlatch, tally>>
hashVars == <<table, expect, config, call>>

bpmState == <<pages, page_table, free_list, replacer, next_page_id, avaliable>>

NoLoc == [frame |-> -1, page |-> -1, old_pid |-> -1, old_data |-> 0, was_dirty |-> FALSE]
NoWb == [is_write |-> FALSE, page_id |-> -1, data |-> 0]
NoLast == [op |-> "none", ok |-> FALSE]

InitBPM ==
  /\ pages = [f \in Frames |-> [page_id |-> INVALID_PAGE_ID, pin_count |-> 0,
                                is_dirty |-> FALSE, data |-> 0]]
  /\ page_table = [p \in PageIds |-> -1]
  /\ free_list = [i \in 1 .. PoolSize |-> i - 1]
  /\ replacer = NewReplacer(PoolSize, replacer_k)
  /\ next_page_id = 0
  /\ avaliable = [f \in Frames |-> TRUE]
  /\ disk = [p \in PageIds |-> 0]
  /\ request_queue = <<>>
  /\ done = [t \in Threads |-> FALSE]
  /\ pc = [t \in Threads |-> "idle"]
  /\ loc = [t \in Threads |-> NoLoc]
  /\ wb = [t \in Threads |-> NoWb]
  /\ holds = [t \in Threads |-> [p \in PageIds |-> -1]]
  /\ wrote = [t \in Threads |-> {}]
  /\ logical = [p \in PageIds |-> -1]
  /\ last = NoLast
  /\ aborted = FALSE

\* The page ids callers know: those a NewPage call has returned.
Known(page_id) ==
  /\ page_id < next_page_id
  /\ \A u \in Threads : ~(pc[u] = "new_flush" /\ loc[u].page = page_id)

\* page_table_.erase(page_id)
Erase(pt, page_id) == IF page_id \in PageIds THEN [pt EXCEPT ![page_id] = -1] ELSE pt

\* if (!free_list_.empty()) {front, pop_front} else replacer_->Evict(&frame_id)
PickFrame ==
  IF free_list # <<>>
  THEN [frame |-> Head(free_list), fl |-> Tail(free_list), r |-> replacer]
  ELSE LET e == Evict(replacer) IN [frame |-> e.frame, fl |-> free_list, r |-> e.r]

\* The request FlushFrame / ReadFrame hands to the scheduler; data_ is the
\* address of the frame's memory, page_id_ is read from the frame at the call.
FlushRequest(pg, frame_id, t) ==
  [is_write |-> TRUE, frame |-> frame_id, page_id |-> pg[frame_id].page_id, owner |-> t]
ReadRequest(pg, frame_id, t) ==
  [is_write |-> FALSE, frame |-> frame_id, page_id |-> pg[frame_id].page_id, owner |-> t]

Abort ==
  /\ aborted' = TRUE
  /\ UNCHANGED <<pages, page_table, free_list, replacer, next_page_id, avaliable, disk,
                 request_queue, done, pc, loc, wb, holds, wrote, logical>>
  /\ last' = NoLast

\* What a return leaves in last: the call and whether it returned a page / true
Returned(op, ok) == [op |-> op, ok |-> ok]

\* ------------------------------------------------------------- NewPage
NewPage(t) ==
  /\ UNCHANGED <<replVars, schedVars, guardVars, hashVars>>
  /\ ~aborted /\ pc[t] = "idle"
  /\ calls > 0
  /\ calls' = calls - 1
  /\ LET pick == PickFrame
         frame_id == pick.frame
     IN IF frame_id < 0
        THEN /\ last' = Returned("NewPage", FALSE)
             /\ UNCHANGED <<pages, page_table, free_list, replacer, next_page_id,
                            avaliable, disk, request_queue, done, pc, loc, wb, holds,
                            wrote, logical, aborted>>
        ELSE LET pt1 == Erase(page_table, pages[frame_id].page_id)
                 r1 == RecordAccess(pick.r, frame_id)
                 r2 == SetEvictable(r1, frame_id, FALSE)
                 page_id == next_page_id
                 pg1 == [pages EXCEPT ![frame_id].pin_count = 1]
             IN IF r1.crashed THEN Abort
                ELSE /\ next_page_id < MaxPageId
                     /\ free_list' = pick.fl
                     /\ replacer' = r2
                     /\ next_page_id' = next_page_id + 1
                     /\ page_table' = [pt1 EXCEPT ![page_id] = frame_id]
                     /\ IF pages[frame_id].is_dirty
                        THEN \* FlushFrame up to latch_.unlock()
                             /\ pages' = pg1
                             /\ request_queue' = Append(request_queue, FlushRequest(pg1, frame_id, t))
                             /\ avaliable' = [avaliable EXCEPT ![frame_id] = FALSE]
                             /\ done' = [done EXCEPT ![t] = FALSE]
                             /\ pc' = [pc EXCEPT ![t] = "new_flush"]
                             /\ loc' = [loc EXCEPT ![t] =
                                          [frame |-> frame_id, page |-> page_id,
                                           old_pid |-> pages[frame_id].page_id,
                                           old_data |-> pages[frame_id].data,
                                           was_dirty |-> TRUE]]
                             /\ UNCHANGED <<disk, wb, holds, wrote, logical, aborted>>
                             /\ last' = NoLast
                        ELSE /\ pages' = [pg1 EXCEPT ![frame_id].page_id = page_id,
                                                     ![frame_id].data = 0]
                             /\ holds' = [holds EXCEPT ![t][page_id] = frame_id]
                             /\ last' = Returned("NewPage", TRUE)
                             /\ UNCHANGED <<avaliable, disk, request_queue, done, pc, loc,
                                            wb, wrote, logical, aborted>>

\* NewPage from the return of FlushFrame's future.get() on
NewPageAfterFlush(t) ==
  /\ UNCHANGED <<replVars, schedVars, guardVars, hashVars>>
  /\ UNCHANGED calls
  /\ wb' = [wb EXCEPT ![t] = NoWb]
  /\ ~aborted /\ pc[t] = "new_flush" /\ done[t]
  /\ LET frame_id == loc[t].frame
         page_id == loc[t].page
     IN /\ avaliable' = [avaliable EXCEPT ![frame_id] = TRUE]
        /\ pages' = [pages EXCEPT ![frame_id].is_dirty = FALSE,
                                  ![frame_id].page_id = page_id,
                                  ![frame_id].data = 0]
        /\ holds' = [holds EXCEPT ![t][page_id] = frame_id]
        /\ last' = Returned("NewPage", TRUE)
  /\ pc' = [pc EXCEPT ![t] = "idle"]
  /\ loc' = [loc EXCEPT ![t] = NoLoc]
  /\ UNCHANGED <<page_table, free_list, replacer, next_page_id, disk, request_queue,
                 done, wrote, logical, aborted>>


\* ------------------------------------------------------------ FetchPage
\* the part of a miss from pages_[frame_id].page_id_ = page_id to ReadFrame's unlock
StartRead(t, pg, frame_id, page_id, queue) ==
  LET pg1 == [pg EXCEPT ![frame_id].page_id = page_id]
  IN /\ pages' = pg1
     /\ request_queue' = Append(queue, ReadRequest(pg1, frame_id, t))
     /\ avaliable' = [avaliable EXCEPT ![frame_id] = FALSE]
     /\ done' = [done EXCEPT ![t] = FALSE]
     /\ pc' = [pc EXCEPT ![t] = "fetch_read"]

FetchPage(t, page_id) ==
  /\ UNCHANGED <<replVars, schedVars, guardVars, hashVars>>
  /\ ~aborted /\ pc[t] = "idle"
  /\ calls > 0
  /\ calls' = calls - 1
  /\ Known(page_id)
  /\ holds[t][page_id] = -1
  /\ IF page_table[page_id] # -1
     THEN \* page exists in buffer pool
          LET frame_id == page_table[page_id]
              pg1 == [pages EXCEPT ![frame_id].pin_count = @ + 1]
              r1 == RecordAccess(replacer, frame_id)
              r2 == SetEvictable(r1, frame_id, FALSE)
          IN IF r1.crashed THEN Abort
             ELSE /\ pages' = pg1
                  /\ replacer' = r2
                  /\ IF ~avaliable[frame_id]
                     THEN /\ pc' = [pc EXCEPT ![t] = "fetch_wait"]
                          /\ loc' = [loc EXCEPT ![t] = [NoLoc EXCEPT !.frame = frame_id,
                                                                     !.page = page_id]]
                          /\ UNCHANGED <<holds>>
                          /\ last' = NoLast
                     ELSE /\ holds' = [holds EXCEPT ![t][page_id] = frame_id]
                          /\ last' = Returned("FetchPage", TRUE)
                          /\ UNCHANGED <<pc, loc>>
                  /\ UNCHANGED <<page_table, free_list, next_page_id, avaliable, disk,
                                 request_queue, done, wb, wrote, logical, aborted>>
     ELSE LET pick == PickFrame
              frame_id == pick.frame
          IN IF frame_id < 0
             THEN /\ last' = Returned("FetchPage", FALSE)
                  /\ UNCHANGED <<pages, page_table, free_list, replacer, next_page_id,
                                 avaliable, disk, request_queue, done, pc, loc, wb, holds,
                                 wrote, logical, aborted>>
             ELSE LET pt1 == Erase(page_table, pages[frame_id].page_id)
                      pg1 == [pages EXCEPT ![frame_id].pin_count = 1]
                      r1 == RecordAccess(pick.r, frame_id)
                      r2 == SetEvictable(r1, frame_id, FALSE)
                      l1 == [frame |-> frame_id, page |-> page_id,
                             old_pid |-> pages[frame_id].page_id,
                             old_data |-> pages[frame_id].data,
                             was_dirty |-> pages[frame_id].is_dirty]
                  IN IF r1.crashed THEN Abort
                     ELSE /\ free_list' = pick.fl
                          /\ replacer' = r2
                          /\ page_table' = [pt1 EXCEPT ![page_id] = frame_id]
                          /\ loc' = [loc EXCEPT ![t] = l1]
                          /\ IF pages[frame_id].is_dirty
                             THEN /\ pages' = pg1
                                  /\ request_queue' =
                                       Append(request_queue, FlushRequest(pg1, frame_id, t))
                                  /\ avaliable' = [avaliable EXCEPT ![frame_id] = FALSE]
                                  /\ done' = [done EXCEPT ![t] = FALSE]
                                  /\ pc' = [pc EXCEPT ![t] = "fetch_flush"]
                             ELSE StartRead(t, pg1, frame_id, page_id, request_queue)
                          /\ UNCHANGED <<next_page_id, disk, wb, holds, wrote, logical,
                                         aborted>>
                          /\ last' = NoLast

\* the hit path's avaliable_[frame_id].first.wait(lock, ...) returning
FetchPageAfterWait(t) ==
  /\ UNCHANGED <<replVars, schedVars, guardVars, hashVars>>
  /\ UNCHANGED calls
  /\ ~aborted /\ pc[t] = "fetch_wait"
  /\ avaliable[loc[t].frame]
  /\ holds' = [holds EXCEPT ![t][loc[t].page] = loc[t].frame]
  /\ last' = Returned("FetchPage", TRUE)
  /\ pc' = [pc EXCEPT ![t] = "idle"]
  /\ loc' = [loc EXCEPT ![t] = NoLoc]
  /\ UNCHANGED <<pages, page_table, free_list, replacer, next_page_id, avaliable, disk,
                 request_queue, done, wb, wrote, logical, aborted>>

\* a miss from the return of FlushFrame's future.get() to ReadFrame's unlock
FetchPageAfterFlush(t) ==
  /\ UNCHANGED <<replVars, schedVars, guardVars, hashVars>>
  /\ UNCHANGED calls
  /\ wb' = [wb EXCEPT ![t] = NoWb]
  /\ ~aborted /\ pc[t] = "fetch_flush" /\ done[t]
  /\ StartRead(t, [pages EXCEPT ![loc[t].frame].is_dirty = FALSE], loc[t].frame,
               loc[t].page, request_queue)
  /\ UNCHANGED <<page_table, free_list, replacer, next_page_id, disk, loc, holds,
                 wrote, logical, aborted>>
  /\ last' = NoLast

\* a miss from the return of ReadFrame's future.get() on
FetchPageAfterRead(t) ==
  /\ UNCHANGED <<replVars, schedVars, guardVars, hashVars>>
  /\ UNCHANGED calls
  /\ wb' = [wb EXCEPT ![t] = NoWb]
  /\ ~aborted /\ pc[t] = "fetch_read" /\ done[t]
  /\ avaliable' = [avaliable EXCEPT ![loc[t].frame] = TRUE]
  /\ holds' = [holds EXCEPT ![t][loc[t].page] = loc[t].frame]
  /\ last' = Returned("FetchPage", TRUE)
  /\ pc' = [pc EXCEPT ![t] = "idle"]
  /\ loc' = [loc EXCEPT ![t] = NoLoc]
  /\ UNCHANGED <<pages, page_table, free_list, replacer, next_page_id, disk,
                 request_queue, done, wrote, logical, aborted>>

\* ------------------------------------------------------------ UnpinPage
\* UnpinPage that assigns is_dirty to the frame's dirty bit instead of OR-ing
\* it in
UnpinEffect_AssignDirty(pg, r, pt, page_id, is_dirty) ==
  IF pt[page_id] # -1
  THEN LET f == pt[page_id]
           pg1 == [pg EXCEPT ![f].is_dirty = is_dirty]
       IN IF pg1[f].pin_count > 0
          THEN LET pg2 == [pg1 EXCEPT ![f].pin_count = @ - 1]
               IN [pages |-> pg2,
                   replacer |-> IF pg2[f].pin_count = 0 THEN SetEvictable(r, f, TRUE) ELSE r,
                   ret |-> TRUE]
          ELSE [pages |-> pg1, replacer |-> r, ret |-> FALSE]
  ELSE [pages |-> pg, replacer |-> r, ret |-> FALSE]

\* UnpinPage that marks the frame evictable on every decrement, without the
\* test that the count reached zero
UnpinEffect_Mutant(pg, r, pt, page_id, is_dirty) ==
  IF pt[page_id] # -1
  THEN LET f == pt[page_id]
           pg1 == [pg EXCEPT ![f].is_dirty = @ \/ is_dirty]
       IN IF pg1[f].pin_count > 0
          THEN [pages |-> [pg1 EXCEPT ![f].pin_count = @ - 1],
                replacer |-> SetEvictable(r, f, TRUE),
                ret |-> TRUE]
          ELSE [pages |-> pg1, replacer |-> r, ret |-> FALSE]
  ELSE [pages |-> pg, replacer |-> r, ret |-> FALSE]

\* The BPM's part of UnpinPage: [pages, replacer, ret]
UnpinEffect(pg, r, pt, page_id, is_dirty) ==
  IF pt[page_id] # -1
  THEN LET f == pt[page_id]
           pg1 == [pg EXCEPT ![f].is_dirty = @ \/ is_dirty]
       IN IF pg1[f].pin_count > 0
          THEN LET pg2 == [pg1 EXCEPT ![f].pin_count = @ - 1]
               IN [pages |-> pg2,
                   replacer |-> IF pg2[f].pin_count = 0 THEN SetEvictable(r, f, TRUE) ELSE r,
                   ret |-> TRUE]
          ELSE [pages |-> pg1, replacer |-> r, ret |-> FALSE]
  ELSE [pages |-> pg, replacer |-> r, ret |-> FALSE]

\* A caller unpins a page it holds (with is_dirty = true if it modified the
\* page), or calls UnpinPage in error on a page that is absent or at pin 0.
UnpinPage(t, page_id, is_dirty) ==
  /\ UNCHANGED <<replVars, schedVars, guardVars, hashVars>>
  /\ ~aborted /\ pc[t] = "idle"
  /\ calls > 0
  /\ calls' = calls - 1
  /\ Known(page_id)
  /\ \/ holds[t][page_id] # -1 /\ (page_id \in wrote[t] => is_dirty)
     \/ holds[t][page_id] = -1
        /\ (IF page_table[page_id] = -1 THEN TRUE
            ELSE pages[page_table[page_id]].pin_count = 0)
  /\ LET u == UnpinEffect(pages, replacer, page_table, page_id, is_dirty)
     IN /\ pages' = u.pages
        /\ replacer' = u.replacer
        /\ last' = Returned("UnpinPage", u.ret)
        /\ logical' = IF page_id \in wrote[t] /\ ~u.ret
                      THEN [logical EXCEPT ![page_id] = -1] ELSE logical
  /\ holds' = [holds EXCEPT ![t][page_id] = -1]
  /\ wrote' = [wrote EXCEPT ![t] = @ \ {page_id}]
  /\ UNCHANGED <<page_table, free_list, next_page_id, avaliable, disk, request_queue,
                 done, pc, loc, wb, aborted>>

\* ------------------------------------------------------------ FlushPage
FlushPage(t, page_id) ==
  /\ UNCHANGED <<replVars, schedVars, guardVars, hashVars>>
  /\ ~aborted /\ pc[t] = "idle"
  /\ calls > 0
  /\ calls' = calls - 1
  /\ Known(page_id)
  /\ IF page_table[page_id] # -1
     THEN LET frame_id == page_table[page_id]
          IN /\ request_queue' = Append(request_queue, FlushRequest(pages, frame_id, t))
             /\ avaliable' = [avaliable EXCEPT ![frame_id] = FALSE]
             /\ done' = [done EXCEPT ![t] = FALSE]
             /\ pc' = [pc EXCEPT ![t] = "flush_io"]
             /\ loc' = [loc EXCEPT ![t] = [NoLoc EXCEPT !.frame = frame_id,
                                                        !.page = page_id]]
             /\ last' = NoLast
     ELSE /\ last' = Returned("FlushPage", FALSE)
          /\ UNCHANGED <<request_queue, avaliable, done, pc, loc>>
  /\ UNCHANGED <<pages, page_table, free_list, replacer, next_page_id, disk, wb, holds,
                 wrote, logical, aborted>>

FlushPageAfterFlush(t) ==
  /\ UNCHANGED <<replVars, schedVars, guardVars, hashVars>>
  /\ UNCHANGED calls
  /\ wb' = [wb EXCEPT ![t] = NoWb]
  /\ ~aborted /\ pc[t] = "flush_io" /\ done[t]
  /\ avaliable' = [avaliable EXCEPT ![loc[t].frame] = TRUE]
  /\ pages' = [pages EXCEPT ![loc[t].frame].is_dirty = FALSE]
  /\ last' = Returned("FlushPage", TRUE)
  /\ pc' = [pc EXCEPT ![t] = "idle"]
  /\ loc' = [loc EXCEPT ![t] = NoLoc]
  /\ UNCHANGED <<page_table, free_list, replacer, next_page_id, disk, request_queue,
                 done, holds, wrote, logical, aborted>>

\* ----------------------------------------------------------- DeletePage
DeletePage(t, page_id) ==
  /\ UNCHANGED <<replVars, schedVars, guardVars, hashVars>>
  /\ ~aborted /\ pc[t] = "idle"
  /\ calls > 0
  /\ calls' = calls - 1
  /\ Known(page_id)
  /\ holds[t][page_id] = -1
  /\ IF page_table[page_id] = -1
     THEN /\ last' = Returned("DeletePage", TRUE)
          /\ UNCHANGED <<pages, page_table, free_list, replacer, next_page_id, avaliable,
                         disk, request_queue, done, pc, loc, wb, holds, wrote, logical,
                         aborted>>
     ELSE IF pages[page_table[page_id]].pin_count # 0
     THEN /\ last' = Returned("DeletePage", FALSE)
          /\ UNCHANGED <<pages, page_table, free_list, replacer, next_page_id, avaliable,
                         disk, request_queue, done, pc, loc, wb, holds, wrote, logical,
                         aborted>>
     ELSE LET frame_id == page_table[page_id]
              r1 == Remove(replacer, frame_id)
          IN IF r1.crashed THEN Abort
             ELSE /\ page_table' = [page_table EXCEPT ![page_id] = -1]
                  /\ replacer' = r1
                  /\ free_list' = Append(free_list, frame_id)
                  /\ logical' = [logical EXCEPT ![page_id] = -1]
                  /\ IF pages[frame_id].is_dirty
                     THEN /\ request_queue' =
                               Append(request_queue, FlushRequest(pages, frame_id, t))
                          /\ avaliable' = [avaliable EXCEPT ![frame_id] = FALSE]
                          /\ done' = [done EXCEPT ![t] = FALSE]
                          /\ pc' = [pc EXCEPT ![t] = "delete_flush"]
                          /\ loc' = [loc EXCEPT ![t] =
                                       [frame |-> frame_id, page |-> page_id,
                                        old_pid |-> pages[frame_id].page_id,
                                        old_data |-> pages[frame_id].data,
                                        was_dirty |-> TRUE]]
                          /\ last' = NoLast
                     ELSE /\ last' = Returned("DeletePage", TRUE)
                          /\ UNCHANGED <<request_queue, avaliable, done, pc, loc>>
                  /\ UNCHANGED <<pages, next_page_id, disk, wb, holds, wrote, aborted>>

DeletePageAfterFlush(t) ==
  /\ UNCHANGED <<replVars, schedVars, guardVars, hashVars>>
  /\ UNCHANGED calls
  /\ wb' = [wb EXCEPT ![t] = NoWb]
  /\ ~aborted /\ pc[t] = "delete_flush" /\ done[t]
  /\ avaliable' = [avaliable EXCEPT ![loc[t].frame] = TRUE]
  /\ pages' = [pages EXCEPT ![loc[t].frame].is_dirty = FALSE]
  /\ last' = Returned("DeletePage", TRUE)
  /\ pc' = [pc EXCEPT ![t] = "idle"]
  /\ loc' = [loc EXCEPT ![t] = NoLoc]
  /\ UNCHANGED <<page_table, free_list, replacer, next_page_id, disk, request_queue,
                 done, holds, wrote, logical, aborted>>

\* ------------------------------------------------- DiskScheduler worker
\* StartWorkerThread: take the request at the head of the channel, do its I/O
\* on the frame's memory as it is now, fulfil its promise.
StartWorkerThread ==
  /\ UNCHANGED <<replVars, schedVars, guardVars, hashVars>>
  /\ UNCHANGED calls
  /\ ~aborted /\ request_queue # <<>>
  /\ LET disk_request == Head(request_queue)
         f == disk_request.frame
     IN /\ IF disk_request.is_write
           THEN /\ disk' = IF disk_request.page_id \in PageIds
                           THEN [disk EXCEPT ![disk_request.page_id] = pages[f].data]
                           ELSE disk
                /\ UNCHANGED pages
           ELSE /\ pages' = [pages EXCEPT ![f].data = disk[disk_request.page_id]]
                /\ UNCHANGED disk
        /\ wb' = [wb EXCEPT ![disk_request.owner] =
                    [is_write |-> disk_request.is_write, page_id |-> disk_request.page_id,
                     data |-> IF disk_request.is_write THEN pages[f].data
                              ELSE disk[disk_request.page_id]]]
        /\ done' = [done EXCEPT ![disk_request.owner] = TRUE]
  /\ request_queue' = Tail(request_queue)
  /\ UNCHANGED <<page_table, free_list, replacer, next_page_id, avaliable, pc, loc,
                 holds, wrote, logical, aborted>>
  /\ last' = NoLast

\* ------------------------------------------------------------- callers
\* A thread modifies the bytes of a page through the pointer it holds.
WritePageData(t, page_id, d) ==
  /\ UNCHANGED <<replVars, schedVars, guardVars, hashVars>>
  /\ UNCHANGED calls
  /\ ~aborted /\ pc[t] = "idle"
  /\ holds[t][page_id] # -1
  /\ d # pages[holds[t][page_id]].data
  /\ pages' = [pages EXCEPT ![holds[t][page_id]].data = d]
  /\ wrote' = [wrote EXCEPT ![t] = @ \cup {page_id}]
  /\ logical' = [logical EXCEPT ![page_id] = d]
  /\ UNCHANGED <<page_table, free_list, replacer, next_page_id, avaliable, disk,
                 request_queue, done, pc, loc, wb, holds, aborted>>
  /\ last' = NoLast

\* No page guard was constructed.
NoGuard == guard = <<>> /\ rwlatch = <<>> /\ tally = <<>>

\* No hash table was constructed.
NoHash == table = <<>> /\ expect = <<>> /\ config = <<>> /\ call = <<>>

\* No stand-alone replacer and no stand-alone scheduler beside the pool.
NoRepl == ref_hist = <<>> /\ evicted = -1
NoSched ==
  /\ variant = "none" /\ stop = FALSE /\ worker = <<>> /\ io_count = <<>>
  /\ promise = <<>> /\ scheduled = 0 /\ dtor = FALSE

Init == InitBPM /\ calls = MaxCalls /\ NoRepl /\ NoSched /\ NoGuard /\ NoHash

Next ==
  \/ \E t \in Threads : NewPage(t)
  \/ \E t \in Threads : NewPageAfterFlush(t)
  \/ \E t \in Threads, p \in PageIds : FetchPage(t, p)
  \/ \E t \in Threads : FetchPageAfterWait(t)
  \/ \E t \in Threads : FetchPageAfterFlush(t)
  \/ \E t \in Threads : FetchPageAfterRead(t)
  \/ \E t \in Threads, p \in PageIds, d \in BOOLEAN : UnpinPage(t, p, d)
  \/ \E t \in Threads, p \in PageIds : FlushPage(t, p)
  \/ \E t \in Threads : FlushPageAfterFlush(t)
  \/ \E t \in Threads, p \in PageIds : DeletePage(t, p)
  \/ \E t \in Threads : DeletePageAfterFlush(t)
  \/ StartWorkerThread
  \/ \E t \in Threads, p \in PageIds, d \in Data \ {0} : WritePageData(t, p, d)

Spec == Init /\ [][Next]_vars

\* One calling thread: the calls are sequential, only the worker runs beside it.
InitSeq == InitBPM /\ calls = MaxSeqCalls /\ NoRepl /\ NoSched /\ NoGuard /\ NoHash

NextSeq ==
  \/ NewPage(1)
  \/ NewPageAfterFlush(1)
  \/ \E p \in PageIds : FetchPage(1, p)
  \/ FetchPageAfterFlush(1)
  \/ FetchPageAfterRead(1)
  \/ \E p \in PageIds, d \in BOOLEAN : UnpinPage(1, p, d)
  \/ \E p \in PageIds : FlushPage(1, p)
  \/ FlushPageAfterFlush(1)
  \/ \E p \in PageIds : DeletePage(1, p)
  \/ DeletePageAfterFlush(1)
  \/ StartWorkerThread
  \/ \E p \in PageIds, d \in Data \ {0} : WritePageData(1, p, d)

SeqSpec == InitSeq /\ [][NextSeq]_vars

\* ====================== LRUKReplacer used directly ======================
\* A client constructs LRUKReplacer(ReplFrames, k) and calls its four public
\* operations; every call holds latch_ from start to end, so a call is a step.
RFrames == 0 .. (ReplFrames - 1)

poolVars == <<pages, page_table, free_list, next_page_id, avaliable, disk, done, pc,
              loc, wb, holds, wrote, logical>>

\* No buffer pool was constructed.
NoPool ==
  /\ pages = <<>> /\ page_table = <<>> /\ free_list = <<>> /\ next_page_id = 0
  /\ avaliable = <<>> /\ disk = <<>> /\ done = <<>> /\ pc = <<>> /\ loc = <<>>
  /\ wb = <<>> /\ holds = <<>> /\ wrote = <<>> /\ logical = <<>>

InitRepl ==
  /\ \E k \in 1 .. MaxK : replacer = NewReplacer(ReplFrames, k)
  /\ ref_hist = [f \in RFrames |-> <<>>]
  /\ evicted = -1
  /\ calls = MaxReplCalls
  /\ last = NoLast
  /\ aborted = FALSE
  /\ request_queue = <<>>
  /\ NoPool /\ NoSched /\ NoGuard /\ NoHash

\* The call op failed a BUSTUB_ASSERT or dereferenced a pointer that is no
\* node; last keeps which call it was.
ReplAbort(op) ==
  /\ aborted' = TRUE
  /\ last' = Returned(op, FALSE)
  /\ UNCHANGED <<replacer, ref_hist, evicted>>

\* The number of this call, the time the reference history gives an access.
Now == (MaxReplCalls - calls) + 1

CallRecordAccess(frame_id) ==
  /\ ~aborted /\ calls > 0
  /\ calls' = calls - 1
  /\ LET r1 == RecordAccess(replacer, frame_id)
     IN IF r1.crashed THEN ReplAbort("RecordAccess")
        ELSE /\ replacer' = r1
             /\ ref_hist' = [ref_hist EXCEPT ![frame_id] = Append(@, Now)]
             /\ evicted' = -1
             /\ last' = Returned("RecordAccess", TRUE)
             /\ UNCHANGED aborted
  /\ UNCHANGED <<poolVars, request_queue, schedVars, guardVars, hashVars>>

CallSetEvictable(frame_id, set_evictable) ==
  /\ ~aborted /\ calls > 0
  /\ calls' = calls - 1
  /\ replacer' = SetEvictable(replacer, frame_id, set_evictable)
  /\ evicted' = -1
  /\ last' = Returned("SetEvictable", TRUE)
  /\ UNCHANGED <<ref_hist, aborted, poolVars, request_queue, schedVars, guardVars, hashVars>>

CallEvict ==
  /\ ~aborted /\ calls > 0
  /\ calls' = calls - 1
  /\ LET e == Evict(replacer)
     IN /\ replacer' = e.r
        /\ evicted' = e.frame
        /\ ref_hist' = IF e.frame # -1 THEN [ref_hist EXCEPT ![e.frame] = <<>>]
                       ELSE ref_hist
        /\ last' = Returned("Evict", e.frame # -1)
  /\ UNCHANGED <<aborted, poolVars, request_queue, schedVars, guardVars, hashVars>>

CallRemove(frame_id) ==
  /\ ~aborted /\ calls > 0
  /\ calls' = calls - 1
  /\ LET r1 == Remove(replacer, frame_id)
     IN IF r1.crashed THEN ReplAbort("Remove")
        ELSE /\ replacer' = r1
             /\ ref_hist' = [ref_hist EXCEPT ![frame_id] = <<>>]
             /\ evicted' = -1
             /\ last' = Returned("Remove", TRUE)
             /\ UNCHANGED aborted
  /\ UNCHANGED <<poolVars, request_queue, schedVars, guardVars, hashVars>>

NextRepl ==
  \/ \E f \in RFrames : CallRecordAccess(f)
  \/ \E f \in RFrames, b \in BOOLEAN : CallSetEvictable(f, b)
  \/ CallEvict
  \/ \E f \in RFrames : CallRemove(f)

ReplSpec == InitRepl /\ [][NextRepl]_vars

\* ---- a replacer of HeapFrames frames whose frames are all in the heap: the
\* frames were accessed once each in the order 0, 1, ..., then a second time
\* each in the order o, and made evictable (k = 2)
HFrames == 0 .. HeapFrames - 1
Orders == {o \in [1 .. HeapFrames -> HFrames] : \A i, j \in 1 .. HeapFrames : o[i] = o[j] => i = j}

RECURSIVE WarmHeap(_, _, _)
WarmHeap(r, o, i) ==
  IF i > 3 * HeapFrames THEN r
  ELSE IF i <= HeapFrames THEN WarmHeap(RecordAccess(r, i - 1), o, i + 1)
  ELSE IF i <= 2 * HeapFrames THEN WarmHeap(RecordAccess(r, o[i - HeapFrames]), o, i + 1)
  ELSE WarmHeap(SetEvictable(r, i - 2 * HeapFrames - 1, TRUE), o, i + 1)

\* the times of the warming accesses are not positive, the calls count from 1
InitHeap ==
  /\ \E o \in Orders :
       /\ replacer = WarmHeap(NewReplacer(HeapFrames, replacer_k), o, 1)
       /\ ref_hist = [f \in HFrames |->
                        <<f + 1 - 2 * HeapFrames,
                          (CHOOSE i \in 1 .. HeapFrames : o[i] = f) - HeapFrames>>]
  /\ evicted = -1
  /\ calls = MaxHeapCalls
  /\ last = NoLast
  /\ aborted = FALSE
  /\ request_queue = <<>>
  /\ NoPool /\ NoSched /\ NoGuard /\ NoHash

NextHeap ==
  \/ \E f \in HFrames : CallRecordAccess(f)
  \/ \E f \in HFrames, b \in BOOLEAN : CallSetEvictable(f, b)
  \/ CallEvict
  \/ \E f \in HFrames : CallRemove(f)

HeapSpec == InitHeap /\ [][NextHeap]_vars

\* ======================== the disk schedulers ===========================
\* DiskScheduler has one worker that takes optional requests from a channel
\* and leaves its loop at std::nullopt. ConcurrentScheduler has thread_num_
\* workers that share request_queue_ under queue_mtx_ and leave their loop
\* when they find stop_ set. A client calls Schedule and, last, the
\* destructor. Requests are numbered 1 .. MaxRequests in the order they are
\* passed to Schedule; 0 in the queue is std::nullopt.
Requests == 1 .. MaxRequests
Workers == 1 .. (IF variant = "single" THEN 1 ELSE MaxWorkers)

notSched == <<poolVars, replacer, last, calls, aborted, ref_hist, evicted, guardVars, hashVars>>

InitSched ==
  /\ variant \in {"single", "pooled"}
  /\ request_queue = <<>>
  /\ stop = FALSE
  /\ worker = [w \in Workers |-> [pc |-> "wait", req |-> 0]]
  /\ io_count = [r \in Requests |-> 0]
  /\ promise = [r \in Requests |-> FALSE]
  /\ scheduled = 0
  /\ dtor = FALSE
  /\ NoPool /\ NoRepl /\ NoGuard /\ NoHash
  /\ replacer = <<>> /\ last = NoLast /\ calls = 0 /\ aborted = FALSE

\* request_queue_.Put(r) / request_queue_.push(r) under the lock
Schedule ==
  /\ ~dtor /\ scheduled < MaxRequests
  /\ scheduled' = scheduled + 1
  /\ request_queue' = Append(request_queue, scheduled + 1)
  /\ UNCHANGED <<variant, stop, worker, io_count, promise, dtor, notSched>>

\* ~DiskScheduler: Put(std::nullopt); ~ConcurrentScheduler: stop_ = true,
\* notify_all. Both then join the workers.
Destroy ==
  /\ ~dtor
  /\ dtor' = TRUE
  /\ IF variant = "single"
     THEN request_queue' = Append(request_queue, 0) /\ UNCHANGED stop
     ELSE stop' = TRUE /\ UNCHANGED request_queue
  /\ UNCHANGED <<variant, worker, io_count, promise, scheduled, notSched>>

\* A channel whose Get returns the element put last instead of the front one
Back(q) == q[Len(q)]
WorkerGet_Lifo(w) ==
  /\ w \in Workers
  /\ worker[w].pc = "wait"
  /\ request_queue # <<>>
  /\ request_queue' = SubSeq(request_queue, 1, Len(request_queue) - 1)
  /\ worker' = [worker EXCEPT ![w] =
                  IF Back(request_queue) = 0 THEN [pc |-> "exit", req |-> 0]
                  ELSE [pc |-> "io", req |-> Back(request_queue)]]
  /\ UNCHANGED <<variant, stop, io_count, promise, scheduled, dtor, notSched>>

\* The worker's wait for the queue: Get() returns the front element; the
\* pooled worker wakes when the queue is not empty or stop_ is set, returns
\* if stop_ is set and otherwise pops the front element.
WorkerGet(w) ==
  /\ w \in Workers
  /\ worker[w].pc = "wait"
  /\ IF variant = "single"
     THEN /\ request_queue # <<>>
          /\ request_queue' = Tail(request_queue)
          /\ worker' = [worker EXCEPT ![w] =
                          IF Head(request_queue) = 0 THEN [pc |-> "exit", req |-> 0]
                          ELSE [pc |-> "io", req |-> Head(request_queue)]]
     ELSE /\ request_queue # <<>> \/ stop
          /\ IF stop
             THEN /\ worker' = [worker EXCEPT ![w] = [pc |-> "exit", req |-> 0]]
                  /\ UNCHANGED request_queue
             ELSE /\ worker' = [worker EXCEPT ![w] = [pc |-> "io", req |-> Head(request_queue)]]
                  /\ request_queue' = Tail(request_queue)
  /\ UNCHANGED <<variant, stop, io_count, promise, scheduled, dtor, notSched>>

\* disk_manager_->WritePage / ReadPage for the request the worker holds
WorkerIO(w) ==
  /\ w \in Workers
  /\ worker[w].pc = "io"
  /\ io_count' = [io_count EXCEPT ![worker[w].req] = @ + 1]
  /\ worker' = [worker EXCEPT ![w].pc = "set"]
  /\ UNCHANGED <<variant, stop, request_queue, promise, scheduled, dtor, notSched>>

\* callback_.set_value(true), then the next turn of the loop
WorkerSetValue(w) ==
  /\ w \in Workers
  /\ worker[w].pc = "set"
  /\ promise' = [promise EXCEPT ![worker[w].req] = TRUE]
  /\ worker' = [worker EXCEPT ![w] = [pc |-> "wait", req |-> 0]]
  /\ UNCHANGED <<variant, stop, request_queue, io_count, scheduled, dtor, notSched>>

NextSched ==
  \/ Schedule
  \/ Destroy
  \/ \E w \in 1 .. MaxWorkers : WorkerGet(w)
  \/ \E w \in 1 .. MaxWorkers : WorkerIO(w)
  \/ \E w \in 1 .. MaxWorkers : WorkerSetValue(w)

SchedSpec == InitSched /\ [][NextSched]_vars

\* ============================ page guards ===============================
\* Guard objects live in slots 1 .. MaxGuards; a slot is dead before its
\* object is constructed and after it is destroyed. guard[g].inert records
\* that the object was moved from or dropped and has not been assigned to
\* since. guard[g].b is the
\* BasicPageGuard itself (kind "basic") or the member guard_ of a
\* ReadPageGuard / WritePageGuard. page_ points into pages_, so a guard's
\* page is a frame id, -1 for nullptr. The pool is a BufferPoolManager whose
\* frames hold pages 0 .. PoolSize - 1, unpinned, as two NewPage and two
\* UnpinPage calls leave it.
Guards == 1 .. MaxGuards

\* BasicPageGuard(): bpm_ = nullptr, page_ = nullptr, is_dirty_ = false
NullGuard == [bpm |-> FALSE, page |-> -1, is_dirty |-> FALSE]
\* BasicPageGuard(bpm, page)
NewBasicGuard(frame) == [bpm |-> TRUE, page |-> frame, is_dirty |-> FALSE]
\* WritePageGuard(bpm, page): the write guard is dirty from its acquisition
NewWriteGuard(frame) == [bpm |-> TRUE, page |-> frame, is_dirty |-> TRUE]
DeadGuard == [kind |-> "none", alive |-> FALSE, b |-> NullGuard, inert |-> FALSE]

Bump(t, field, f) == [t EXCEPT ![field][f] = @ + 1]

\* The state a guard operation works on:
\*   [pages, replacer, rwlatch, tally, crashed]
\* crashed: the operation unlocked a latch that nobody holds.
GuardSt == [pages |-> pages, replacer |-> replacer, rwlatch |-> rwlatch,
            tally |-> tally, crashed |-> FALSE]

RLatch(st, f) ==
  [st EXCEPT !.rwlatch[f].readers = @ + 1, !.tally = Bump(@, "rlatch", f)]
WLatch(st, f) ==
  [st EXCEPT !.rwlatch[f].writer = TRUE, !.tally = Bump(@, "wlatch", f)]
RUnlatch(st, f) ==
  IF st.rwlatch[f].readers = 0 THEN [st EXCEPT !.crashed = TRUE]
  ELSE [st EXCEPT !.rwlatch[f].readers = @ - 1, !.tally = Bump(@, "runlatch", f)]
WUnlatch(st, f) ==
  IF ~st.rwlatch[f].writer THEN [st EXCEPT !.crashed = TRUE]
  ELSE [st EXCEPT !.rwlatch[f].writer = FALSE, !.tally = Bump(@, "wunlatch", f)]

\* bpm_->UnpinPage(page_->GetPageId(), is_dirty_)
GuardUnpin(st, b) ==
  LET u == UnpinEffect(st.pages, st.replacer, page_table, st.pages[b.page].page_id,
                       b.is_dirty)
  IN [st EXCEPT !.pages = u.pages, !.replacer = u.replacer,
                !.tally = Bump(@, "unpin", b.page)]

\* The operations of a guard return [st |-> ..., this |-> ..., that |-> ...]:
\* the state and the fields of the guards they work on.
\* A Drop that unpins and leaves bpm_ and page_ as they are
BasicDrop_NoReset(st, this) ==
  [st |-> IF this.bpm /\ this.page # -1 THEN GuardUnpin(st, this) ELSE st,
   this |-> this]

BasicDrop(st, this) ==
  [st |-> IF this.bpm /\ this.page # -1 THEN GuardUnpin(st, this) ELSE st,
   this |-> NullGuard]

BasicDtor(st, this) ==
  IF this.bpm /\ this.page # -1 THEN GuardUnpin(st, this) ELSE st

BasicMove(that) == [this |-> that, that |-> NullGuard]

BasicAssign(st, this, that) ==
  LET d == BasicDrop(st, this)
  IN [st |-> d.st, this |-> that, that |-> NullGuard]

ReadDrop(st, this) ==
  BasicDrop(IF this.page # -1 THEN RUnlatch(st, this.page) ELSE st, this)

ReadDtor(st, this) ==
  BasicDtor(IF this.page # -1 THEN RUnlatch(st, this.page) ELSE st, this)

\* ReadPageGuard(ReadPageGuard &&that): Drop() on the new object's empty
\* guard_, then guard_ = std::move(that.guard_)
ReadMove(st, that) ==
  LET d == ReadDrop(st, NullGuard)
  IN BasicAssign(d.st, d.this, that)

ReadAssign(st, this, that) == BasicAssign(st, this, that)

WriteDrop(st, this) ==
  BasicDrop(IF this.page # -1 THEN WUnlatch(st, this.page) ELSE st, this)

WriteDtor(st, this) ==
  BasicDtor(IF this.page # -1 THEN WUnlatch(st, this.page) ELSE st, this)

WriteMove(st, that) ==
  LET d == WriteDrop(st, NullGuard)
  IN BasicAssign(d.st, d.this, that)

WriteAssign(st, this, that) ==
  LET d == WriteDrop(st, this)
  IN BasicAssign(d.st, d.this, that)

\* The replacer after NewPage took frames 0 .. PoolSize - 1 from the free
\* list, and after each page was unpinned.
RECURSIVE Warm(_, _)
Warm(r, f) ==
  IF f = PoolSize THEN r ELSE Warm(SetEvictable(RecordAccess(r, f), f, FALSE), f + 1)
RECURSIVE Cool(_, _)
Cool(r, f) == IF f = PoolSize THEN r ELSE Cool(SetEvictable(r, f, TRUE), f + 1)

\* The pool after NewPage was called PoolSize times and every page was
\* unpinned clean: pages 0 .. PoolSize - 1 are resident and may be evicted.
WarmPool ==
  /\ pages = [f \in Frames |-> [page_id |-> f, pin_count |-> 0, is_dirty |-> FALSE,
                                data |-> 0]]
  /\ page_table = [p \in PageIds |-> IF p < PoolSize THEN p ELSE -1]
  /\ free_list = <<>>
  /\ replacer = Cool(Warm(NewReplacer(PoolSize, replacer_k), 0), 0)
  /\ next_page_id = PoolSize
  /\ avaliable = [f \in Frames |-> TRUE]
  /\ disk = [p \in PageIds |-> 0]
  /\ request_queue = <<>>
  /\ done = [t \in Threads |-> FALSE]
  /\ pc = [t \in Threads |-> "idle"]
  /\ loc = [t \in Threads |-> NoLoc]
  /\ wb = [t \in Threads |-> NoWb]
  /\ holds = [t \in Threads |-> [p \in PageIds |-> -1]]
  /\ wrote = [t \in Threads |-> {}]
  /\ logical = [p \in PageIds |-> -1]
  /\ last = NoLast
  /\ aborted = FALSE

\* The callers of Spec, starting at the warm pool
InitWarm == WarmPool /\ calls = MaxWarmCalls /\ NoRepl /\ NoSched /\ NoGuard /\ NoHash

WarmSpec == InitWarm /\ [][Next]_vars

InitGuard ==
  /\ WarmPool
  /\ calls = MaxGuardCalls
  /\ guard = [g \in Guards |-> DeadGuard]
  /\ rwlatch = [f \in Frames |-> [readers |-> 0, writer |-> FALSE]]
  /\ tally = [c \in {"pin", "unpin", "rlatch", "runlatch", "wlatch", "wunlatch"} |->
                [f \in Frames |-> 0]]
  /\ NoRepl /\ NoSched /\ NoHash

guardRest == <<page_table, free_list, next_page_id, avaliable, disk, request_queue,
               done, pc, loc, wb, holds, wrote, logical, replVars, schedVars, hashVars>>

\* The end of a guard operation: the state it leaves, or the abort
GuardCommit(st, g1) ==
  IF st.crashed
  THEN aborted' = TRUE /\ UNCHANGED <<pages, replacer, rwlatch, tally, guard>>
  ELSE /\ pages' = st.pages /\ replacer' = st.replacer /\ rwlatch' = st.rwlatch
       /\ tally' = st.tally /\ guard' = g1
       /\ UNCHANGED aborted

\* FetchPage of a page that is in the pool: pin, RecordAccess, SetEvictable
FetchHit(st, frame_id) ==
  LET r1 == RecordAccess(st.replacer, frame_id)
  IN [st EXCEPT !.pages[frame_id].pin_count = @ + 1,
                !.replacer = SetEvictable(r1, frame_id, FALSE),
                !.tally = Bump(@, "pin", frame_id),
                !.crashed = r1.crashed]

\* A call on a guard; last keeps the call and, for Drop and the destructor,
\* whether the guard held a page.
GuardCall(op, ok) ==
  /\ ~aborted /\ calls > 0 /\ calls' = calls - 1
  /\ last' = Returned(op, ok)
  /\ UNCHANGED guardRest

FetchPageBasic(g, page_id) ==
  /\ GuardCall("FetchPageBasic", TRUE)
  /\ ~guard[g].alive /\ page_table[page_id] # -1
  /\ LET f == page_table[page_id]
     IN GuardCommit(FetchHit(GuardSt, f),
                    [guard EXCEPT ![g] = [kind |-> "basic", alive |-> TRUE,
                                          b |-> NewBasicGuard(f), inert |-> FALSE]])

FetchPageRead(g, page_id) ==
  /\ GuardCall("FetchPageRead", TRUE)
  /\ ~guard[g].alive /\ page_table[page_id] # -1
  /\ ~rwlatch[page_table[page_id]].writer
  /\ LET f == page_table[page_id]
     IN GuardCommit(RLatch(FetchHit(GuardSt, f), f),
                    [guard EXCEPT ![g] = [kind |-> "read", alive |-> TRUE,
                                          b |-> NewBasicGuard(f), inert |-> FALSE]])

FetchPageWrite(g, page_id) ==
  /\ GuardCall("FetchPageWrite", TRUE)
  /\ ~guard[g].alive /\ page_table[page_id] # -1
  /\ ~rwlatch[page_table[page_id]].writer /\ rwlatch[page_table[page_id]].readers = 0
  /\ LET f == page_table[page_id]
     IN GuardCommit(WLatch(FetchHit(GuardSt, f), f),
                    [guard EXCEPT ![g] = [kind |-> "write", alive |-> TRUE,
                                          b |-> NewWriteGuard(f), inert |-> FALSE]])

\* A default-constructed guard of the given kind
ConstructEmpty(g, kind) ==
  /\ GuardCall("ConstructEmpty", TRUE)
  /\ ~guard[g].alive
  /\ GuardCommit(GuardSt, [guard EXCEPT ![g] = [kind |-> kind, alive |-> TRUE,
                                                b |-> NullGuard, inert |-> FALSE]])

\* h = g.UpgradeRead(): page_->RLatch(); ReadPageGuard{std::move(*this)}
UpgradeRead(g, h) ==
  /\ GuardCall("UpgradeRead", TRUE)
  /\ guard[g].alive /\ guard[g].kind = "basic" /\ guard[g].b.page # -1
  /\ ~guard[h].alive
  /\ ~rwlatch[guard[g].b.page].writer
  /\ LET m == BasicMove(guard[g].b)
     IN GuardCommit(RLatch(GuardSt, guard[g].b.page),
                    [guard EXCEPT ![g].b = m.that, ![g].inert = TRUE,
                                  ![h] = [kind |-> "read", alive |-> TRUE, b |-> m.this,
                                          inert |-> FALSE]])

\* An UpgradeWrite that latches and moves but leaves is_dirty_ as it was
UpgradeWrite_KeepDirty(g, h) ==
  /\ GuardCall("UpgradeWrite", TRUE)
  /\ guard[g].alive /\ guard[g].kind = "basic" /\ guard[g].b.page # -1
  /\ ~guard[h].alive
  /\ ~rwlatch[guard[g].b.page].writer /\ rwlatch[guard[g].b.page].readers = 0
  /\ LET m == BasicMove(guard[g].b)
     IN GuardCommit(WLatch(GuardSt, guard[g].b.page),
                    [guard EXCEPT ![g].b = m.that, ![g].inert = TRUE,
                                  ![h] = [kind |-> "write", alive |-> TRUE, b |-> m.this,
                                          inert |-> FALSE]])

\* h = g.UpgradeWrite(): page_->WLatch(); is_dirty_ = true;
\* WritePageGuard{std::move(*this)}
UpgradeWrite(g, h) ==
  /\ GuardCall("UpgradeWrite", TRUE)
  /\ guard[g].alive /\ guard[g].kind = "basic" /\ guard[g].b.page # -1
  /\ ~guard[h].alive
  /\ ~rwlatch[guard[g].b.page].writer /\ rwlatch[guard[g].b.page].readers = 0
  /\ LET m == BasicMove([guard[g].b EXCEPT !.is_dirty = TRUE])
     IN GuardCommit(WLatch(GuardSt, guard[g].b.page),
                    [guard EXCEPT ![g].b = m.that, ![g].inert = TRUE,
                                  ![h] = [kind |-> "write", alive |-> TRUE, b |-> m.this,
                                          inert |-> FALSE]])

\* Guard g(std::move(h))
MoveConstruct(g, h) ==
  /\ GuardCall("MoveConstruct", TRUE)
  /\ ~guard[g].alive /\ guard[h].alive
  /\ LET m == IF guard[h].kind = "basic"
              THEN [st |-> GuardSt] @@ BasicMove(guard[h].b)
              ELSE IF guard[h].kind = "read" THEN ReadMove(GuardSt, guard[h].b)
              ELSE WriteMove(GuardSt, guard[h].b)
     IN GuardCommit(m.st, [guard EXCEPT ![g] = [kind |-> guard[h].kind, alive |-> TRUE,
                                                b |-> m.this, inert |-> FALSE],
                                        ![h].b = m.that, ![h].inert = TRUE])

\* g = std::move(h), also with h the same object as g
MoveAssign(g, h) ==
  /\ GuardCall("MoveAssign", TRUE)
  /\ guard[g].alive /\ guard[h].alive /\ guard[g].kind = guard[h].kind
  /\ IF g = h THEN GuardCommit(GuardSt, guard)
     ELSE LET m == IF guard[g].kind = "basic"
                   THEN BasicAssign(GuardSt, guard[g].b, guard[h].b)
                   ELSE IF guard[g].kind = "read"
                        THEN ReadAssign(GuardSt, guard[g].b, guard[h].b)
                        ELSE WriteAssign(GuardSt, guard[g].b, guard[h].b)
          IN GuardCommit(m.st, [guard EXCEPT ![g].b = m.this, ![g].inert = FALSE,
                                             ![h].b = m.that, ![h].inert = TRUE])

\* g.Drop()
Drop(g) ==
  /\ GuardCall("Drop", guard[g].b.page # -1)
  /\ guard[g].alive
  /\ LET d == IF guard[g].kind = "basic" THEN BasicDrop(GuardSt, guard[g].b)
              ELSE IF guard[g].kind = "read" THEN ReadDrop(GuardSt, guard[g].b)
              ELSE WriteDrop(GuardSt, guard[g].b)
     IN GuardCommit(d.st, [guard EXCEPT ![g].b = d.this, ![g].inert = TRUE])

\* The end of g's lifetime: ~ReadPageGuard / ~WritePageGuard, then the
\* destructor of the member guard_
DestroyGuard(g) ==
  /\ GuardCall("destructor", guard[g].b.page # -1)
  /\ guard[g].alive
  /\ LET st == IF guard[g].kind = "basic" THEN BasicDtor(GuardSt, guard[g].b)
               ELSE IF guard[g].kind = "read" THEN ReadDtor(GuardSt, guard[g].b)
               ELSE WriteDtor(GuardSt, guard[g].b)
     IN GuardCommit(st, [guard EXCEPT ![g] = DeadGuard])

NextGuard ==
  \/ \E g \in Guards, p \in PageIds : FetchPageBasic(g, p)
  \/ \E g \in Guards, p \in PageIds : FetchPageRead(g, p)
  \/ \E g \in Guards, p \in PageIds : FetchPageWrite(g, p)
  \/ \E g \in Guards, k \in {"basic", "read", "write"} : ConstructEmpty(g, k)
  \/ \E g \in Guards, h \in Guards : UpgradeRead(g, h)
  \/ \E g \in Guards, h \in Guards : UpgradeWrite(g, h)
  \/ \E g \in Guards, h \in Guards : MoveConstruct(g, h)
  \/ \E g \in Guards, h \in Guards : MoveAssign(g, h)
  \/ \E g \in Guards : Drop(g)
  \/ \E g \in Guards : DestroyGuard(g)

GuardSpec == InitGuard /\ [][NextGuard]_vars


\* ===================================================================
\* The disk extendible hash table (disk_extendible_hash_table.cpp) over its
\* header, directory and bucket pages. The table reaches its pages through
\* page guards of a buffer pool; here a page is kept by its page id, and
\* NewPageGuarded fails when the pool has no room left for the call.

UINT8 == 256

\* The constructor's arguments
header_max_depth == config.header_max_depth
directory_max_depth == config.directory_max_depth
bucket_max_size == config.bucket_max_size
Configs ==
  [header_max_depth : {MaxHeaderDepth}, directory_max_depth : 1 .. MaxDirDepth,
   bucket_max_size : 1 .. MaxBucketSize]

\* The keys the callers use, and the values
HKeys == (0 .. MaxKey) \cup {2 ^ (HashBits - 1)}
HValues == 1 .. MaxValue

Pow2(n) == 2 ^ n

RECURSIVE BitAnd(_, _)
BitAnd(a, b) ==
  IF a = 0 \/ b = 0 THEN 0
  ELSE (IF a % 2 = 1 /\ b % 2 = 1 THEN 1 ELSE 0) + 2 * BitAnd(a \div 2, b \div 2)

RECURSIVE BitXor(_, _)
BitXor(a, b) ==
  IF a = 0 THEN b
  ELSE IF b = 0 THEN a
  ELSE (IF a % 2 # b % 2 THEN 1 ELSE 0) + 2 * BitXor(a \div 2, b \div 2)

\* Hash(key) with the identity hash function; a hash has HashBits bits here,
\* uint32_t in the program
Hash(key) == key % Pow2(HashBits)

\* ---- header page
HeaderInit(max_depth) ==
  [kind |-> "header", max_depth |-> max_depth,
   directory_page_ids |-> [i \in 0 .. Pow2(max_depth) - 1 |-> INVALID_PAGE_ID]]

HashToDirectoryIndex(header, hash) == hash \div Pow2(HashBits - header.max_depth)

GetDirectoryPageId(header, directory_idx) == header.directory_page_ids[directory_idx]

SetDirectoryPageId(header, directory_idx, directory_page_id) ==
  [header EXCEPT !.directory_page_ids[directory_idx] = directory_page_id]

\* ---- bucket page: array holds the pairs in order, size_ is its length
BucketInit(max_size) == [kind |-> "bucket", max_size |-> max_size, array |-> <<>>]

IsFull(bucket) == Len(bucket.array) = bucket.max_size
IsEmpty(bucket) == Len(bucket.array) = 0
HasKey(bucket, key) == \E i \in 1 .. Len(bucket.array) : bucket.array[i].key = key

\* Lookup: [found, value]
Lookup(bucket, key) ==
  IF HasKey(bucket, key)
  THEN [found |-> TRUE,
        value |-> bucket.array[CHOOSE i \in 1 .. Len(bucket.array) :
                                 bucket.array[i].key = key].value]
  ELSE [found |-> FALSE, value |-> 0]

\* Insert: [bucket, ret]; false when the key is there or the bucket is full
BucketInsert(bucket, key, value) ==
  IF HasKey(bucket, key) \/ IsFull(bucket)
  THEN [bucket |-> bucket, ret |-> FALSE]
  ELSE [bucket |-> [bucket EXCEPT !.array = Append(@, [key |-> key, value |-> value])],
        ret |-> TRUE]

\* RemoveAt(i), i counted from 0: the later pairs move down
RemoveAt(bucket, i) ==
  [bucket EXCEPT !.array = SubSeq(@, 1, i) \o SubSeq(@, i + 2, Len(@))]

\* Remove: [bucket, ret]
BucketRemove(bucket, key) ==
  IF HasKey(bucket, key)
  THEN [bucket |-> RemoveAt(bucket, (CHOOSE i \in 1 .. Len(bucket.array) :
                                       bucket.array[i].key = key) - 1),
        ret |-> TRUE]
  ELSE [bucket |-> bucket, ret |-> FALSE]

\* ---- directory page (extendible_htable_directory_page.cpp)
\* The two arrays have room beyond 1 << max_depth_; the slots kept here are
\* those an index below twice the directory's largest size can reach.
DirSlots == 0 .. 2 * Pow2(MaxDirDepth) - 1

DirInit(max_depth) ==
  [kind |-> "directory", max_depth |-> max_depth, global_depth |-> 0,
   local_depths |-> [i \in DirSlots |-> 0],
   bucket_page_ids |-> [i \in DirSlots |-> INVALID_PAGE_ID]]

MaxSize(d) == Pow2(d.max_depth)
GetGlobalDepthMask(d) == Pow2(d.global_depth) - 1
HashToBucketIndex(d, hash) == BitAnd(hash, GetGlobalDepthMask(d))
GetBucketPageId(d, bucket_idx) == d.bucket_page_ids[bucket_idx]
GetLocalDepth(d, bucket_idx) == d.local_depths[bucket_idx]
GetLocalDepthMask(d, bucket_idx) == Pow2(GetLocalDepth(d, bucket_idx)) - 1
GetSplitImageIndex(d, bucket_idx) == BitXor(bucket_idx, Pow2(GetLocalDepth(d, bucket_idx)))

SetBucketPageId(d, bucket_idx, bucket_page_id) ==
  IF bucket_idx >= MaxSize(d) THEN d
  ELSE [d EXCEPT !.bucket_page_ids[bucket_idx] = bucket_page_id]

SetLocalDepth(d, bucket_idx, local_depth) ==
  IF bucket_idx < MaxSize(d) THEN [d EXCEPT !.local_depths[bucket_idx] = local_depth % UINT8]
  ELSE d

\* An IncrGlobalDepth that copies nothing into the new half
IncrGlobalDepth_NoCopy(d) == [d EXCEPT !.global_depth = @ + 1]

\* An IncrGlobalDepth that copies the page ids but not the local depths
IncrGlobalDepth_NoLocal(d) ==
  [d EXCEPT !.global_depth = @ + 1,
            !.bucket_page_ids =
              [i \in DirSlots |-> IF i >= Pow2(d.global_depth) /\ i < Pow2(d.global_depth + 1)
                                  THEN d.bucket_page_ids[HashToBucketIndex(d, i)]
                                  ELSE @[i]]]

IncrGlobalDepth(d) ==
  LET lo == Pow2(d.global_depth)
      upper == Pow2(d.global_depth + 1)
      copied == IF d.global_depth < d.max_depth
                THEN [d EXCEPT
                        !.bucket_page_ids =
                          [i \in DirSlots |-> IF i >= lo /\ i < upper
                                              THEN d.bucket_page_ids[HashToBucketIndex(d, i)]
                                              ELSE @[i]],
                        !.local_depths =
                          [i \in DirSlots |-> IF i >= lo /\ i < upper
                                              THEN d.local_depths[HashToBucketIndex(d, i)]
                                              ELSE @[i]]]
                ELSE d
  IN [copied EXCEPT !.global_depth = @ + 1]

DecrGlobalDepth(d) ==
  LET g == d.global_depth - 1
  IN [d EXCEPT !.global_depth = g,
               !.bucket_page_ids = [i \in DirSlots |-> IF i >= Pow2(g) /\ i < Pow2(g + 1)
                                                       THEN INVALID_PAGE_ID ELSE @[i]],
               !.local_depths = [i \in DirSlots |-> IF i >= Pow2(g) /\ i < Pow2(g + 1)
                                                    THEN 0 ELSE @[i]]]

CanShrink_Never(d) == FALSE

CanShrink(d) ==
  \A i \in 0 .. Pow2(d.global_depth) - 1 : GetLocalDepth(d, i) # d.global_depth

RECURSIVE DecrWhileCanShrink(_)
DecrWhileCanShrink(d) == IF CanShrink(d) THEN DecrWhileCanShrink(DecrGlobalDepth(d)) ELSE d

\* The loop of IncrLocalDepth from i on: slot (bucket_idx & mask) + i * stride
\* takes bucket_idx's page id and local_depth + 1
RECURSIVE IncrLocalDepthFrom(_, _, _, _, _, _, _)
IncrLocalDepthFrom(d, bucket_idx, local_depth, count, mask, stride, i) ==
  IF i >= count THEN d
  ELSE LET next_bucket_idx == BitAnd(bucket_idx, mask) + i * stride
       IN IncrLocalDepthFrom(
            [d EXCEPT !.bucket_page_ids[next_bucket_idx] = d.bucket_page_ids[bucket_idx],
                      !.local_depths[next_bucket_idx] = (local_depth + 1) % UINT8],
            bucket_idx, local_depth, count, mask, stride, i + 1)

IncrLocalDepth(d, bucket_idx) ==
  LET local_depth == GetLocalDepth(d, bucket_idx)
      d1 == [d EXCEPT !.local_depths[bucket_idx] = (@ + 1) % UINT8]
      count == Pow2(d.global_depth - local_depth)
      mask == GetLocalDepthMask(d1, bucket_idx)
      stride == Pow2(local_depth)
  IN IncrLocalDepthFrom(d1, bucket_idx, local_depth, count, mask, stride, 0)

DecrLocalDepth(d, bucket_idx) ==
  [d EXCEPT !.local_depths[bucket_idx] = (@ - 1) % UINT8]


\* ---- the table
\* header_page_id_: the first page the pool hands out
header_page_id == 0

PageAt(t, page_id) == t[page_id + 1]
SetPage(t, page_id, page) == [t EXCEPT ![page_id + 1] = page]

\* BufferPoolManager::DeletePage as the table sees it: false and no effect
\* for a page some guard of the call still pins, else the page is gone.
DeletePageOf(t, page_id, pinned) ==
  IF page_id \in pinned THEN t ELSE SetPage(t, page_id, [kind |-> "deleted"])

\* The loop of MigrateEntries, from entry i down to entry 0
RECURSIVE MigrateFrom(_, _, _, _, _)
MigrateFrom(old_bucket, new_bucket, new_bucket_idx, local_depth_mask, i) ==
  IF i < 0 THEN [old |-> old_bucket, new |-> new_bucket]
  ELSE LET entry == old_bucket.array[i + 1]
           hash_temp == Hash(entry.key)
       IN IF BitAnd(hash_temp, local_depth_mask) = BitAnd(new_bucket_idx, local_depth_mask)
          THEN MigrateFrom(RemoveAt(old_bucket, i),
                           BucketInsert(new_bucket, entry.key, entry.value).bucket,
                           new_bucket_idx, local_depth_mask, i - 1)
          ELSE MigrateFrom(old_bucket, new_bucket, new_bucket_idx, local_depth_mask, i - 1)

\* A MigrateEntries that moves every entry to the new bucket
MigrateEntries_All(old_bucket, new_bucket, new_bucket_idx, local_depth_mask) ==
  [old |-> [old_bucket EXCEPT !.array = <<>>],
   new |-> [new_bucket EXCEPT !.array = old_bucket.array]]

MigrateEntries(old_bucket, new_bucket, new_bucket_idx, local_depth_mask) ==
  MigrateFrom(old_bucket, new_bucket, new_bucket_idx, local_depth_mask,
              Len(old_bucket.array) - 1)

\* for (i = 0; i < count; i++): SetLocalDepth and SetBucketPageId of slot
\* base + i * stride
RECURSIVE FillSlots(_, _, _, _, _, _, _)
FillSlots(d, base, stride, count, local_depth, bucket_page_id, i) ==
  IF i >= count THEN d
  ELSE FillSlots(SetBucketPageId(SetLocalDepth(d, base + i * stride, local_depth),
                                 base + i * stride, bucket_page_id),
                 base, stride, count, local_depth, bucket_page_id, i + 1)

\* The calls below work on st = [table, room] and return [table, ret, exit,
\* stale]: exit tells which return statement was taken, stale that the call
\* went through a bucket pointer whose page guard was destroyed before.
InsertToNewBucket(st, directory_page_id, bucket_idx, key, value) ==
  IF st.room = 0
  THEN [table |-> st.table, ret |-> FALSE, exit |-> "nomem", stale |-> FALSE]
  ELSE LET bucket_page_id == Len(st.table)
           directory == PageAt(st.table, directory_page_id)
           count == Pow2(directory.global_depth - 0)
           mask == GetLocalDepthMask(directory, bucket_idx)
           d1 == FillSlots(directory, BitAnd(bucket_idx, mask), 1, count, 0,
                           bucket_page_id, 0)
           b == BucketInsert(BucketInit(bucket_max_size), key, value)
       IN [table |-> Append(SetPage(st.table, directory_page_id, d1), b.bucket),
           ret |-> b.ret, exit |-> "insert", stale |-> FALSE]

InsertToNewDirectory(st, directory_idx, hash, key, value) ==
  IF st.room = 0
  THEN [table |-> st.table, ret |-> FALSE, exit |-> "nomem", stale |-> FALSE]
  ELSE LET directory_page_id == Len(st.table)
           header == SetDirectoryPageId(PageAt(st.table, header_page_id), directory_idx,
                                        directory_page_id)
           directory == DirInit(directory_max_depth)
           bucket_index == HashToBucketIndex(directory, hash)
       IN InsertToNewBucket(
            [table |-> Append(SetPage(st.table, header_page_id, header), directory),
             room |-> st.room - 1],
            directory_page_id, bucket_index, key, value)

\* while (bucket->IsFull()) of Insert: [table, room, bucket, exit]
RECURSIVE SplitLoop(_, _, _, _, _)
SplitLoop(st, directory_page_id, bucket_page_id, bucket_index, hash) ==
  LET directory == PageAt(st.table, directory_page_id)
      bucket == PageAt(st.table, bucket_page_id)
      local_depth == GetLocalDepth(directory, bucket_index)
      global_depth == directory.global_depth
  IN IF ~IsFull(bucket)
     THEN [table |-> st.table, room |-> st.room, bucket |-> bucket_page_id,
           exit |-> "insert"]
     ELSE IF global_depth = local_depth /\ global_depth = directory_max_depth
     THEN [table |-> st.table, room |-> st.room, bucket |-> bucket_page_id,
           exit |-> "full"]
     ELSE IF st.room = 0
     THEN [table |-> st.table, room |-> st.room, bucket |-> bucket_page_id,
           exit |-> "nomem"]
     ELSE LET new_bucket_page_id == Len(st.table)
              d1 == IF global_depth = local_depth THEN IncrGlobalDepth(directory)
                    ELSE directory
              global_depth1 == IF global_depth = local_depth THEN d1.global_depth
                               ELSE global_depth
              split_bucket_idx == GetSplitImageIndex(d1, bucket_index)
              m == MigrateEntries(bucket, BucketInit(bucket_max_size), split_bucket_idx,
                                  Pow2(local_depth))
              d2 == IncrLocalDepth(d1, bucket_index)
              local_depth1 == GetLocalDepth(d2, bucket_index)
              d3 == SetBucketPageId(SetLocalDepth(d2, split_bucket_idx, local_depth1),
                                    split_bucket_idx, new_bucket_page_id)
              count == Pow2(global_depth1 - local_depth1)
              mask == GetLocalDepthMask(d3, split_bucket_idx)
              stride == Pow2(local_depth1)
              d4 == FillSlots(d3, BitAnd(split_bucket_idx, mask), stride, count,
                              local_depth1, new_bucket_page_id, 0)
              t1 == Append(SetPage(SetPage(st.table, directory_page_id, d4),
                                   bucket_page_id, m.old), m.new)
              other == HashToBucketIndex(d4, hash) # bucket_index
          IN SplitLoop([table |-> t1, room |-> st.room - 1], directory_page_id,
                       IF other THEN new_bucket_page_id ELSE bucket_page_id,
                       IF other THEN split_bucket_idx ELSE bucket_index, hash)

\* DiskExtendibleHashTable::Insert with room pages left in the pool
InsertEffect(t, key, value, room) ==
  LET hash == Hash(key)
      header == PageAt(t, header_page_id)
      directory_index == HashToDirectoryIndex(header, hash)
      directory_page_id == GetDirectoryPageId(header, directory_index)
      st == [table |-> t, room |-> room]
  IN IF directory_page_id = INVALID_PAGE_ID
     THEN InsertToNewDirectory(st, directory_index, hash, key, value)
     ELSE LET directory == PageAt(t, directory_page_id)
              bucket_index == HashToBucketIndex(directory, hash)
              bucket_page_id == GetBucketPageId(directory, bucket_index)
          IN IF bucket_page_id = INVALID_PAGE_ID
             THEN InsertToNewBucket(st, directory_page_id, bucket_index, key, value)
             ELSE IF ~IsFull(PageAt(t, bucket_page_id))
             THEN LET b == BucketInsert(PageAt(t, bucket_page_id), key, value)
                  IN [table |-> SetPage(t, bucket_page_id, b.bucket), ret |-> b.ret,
                      exit |-> "insert", stale |-> FALSE]
             ELSE LET s == SplitLoop(st, directory_page_id, bucket_page_id, bucket_index,
                                     hash)
                      b == BucketInsert(PageAt(s.table, s.bucket), key, value)
                  IN IF s.exit = "insert"
                     THEN [table |-> SetPage(s.table, s.bucket, b.bucket), ret |-> b.ret,
                           exit |-> "insert", stale |-> s.bucket # bucket_page_id]
                     ELSE [table |-> s.table, ret |-> FALSE, exit |-> s.exit,
                           stale |-> s.bucket # bucket_page_id]

\* while (local_depth > 0) of Remove: [table, stale]; the read guard
\* bucket_page_r keeps page held pinned and latched, the loop's guard the merge
\* bucket's page until the iteration ends; stale tells that bucket->IsEmpty()
\* was evaluated through the pointer a former iteration's guard left behind
RECURSIVE MergeLoop(_, _, _, _, _)
MergeLoop(t, directory_page_id, bucket_page_id, bucket_index, held) ==
  LET directory == PageAt(t, directory_page_id)
      local_depth == GetLocalDepth(directory, bucket_index)
  IN IF ~(local_depth > 0) THEN [table |-> t, stale |-> FALSE]
     ELSE
       LET merge_mask == Pow2(local_depth - 1)
           global_depth == directory.global_depth
           merge_bucket_index == BitXor(merge_mask, bucket_index)
           merge_local_depth == GetLocalDepth(directory, merge_bucket_index)
           merge_page_id == GetBucketPageId(directory, merge_bucket_index)
           merge_bucket == PageAt(t, merge_page_id)
           bucket == PageAt(t, bucket_page_id)
           unguarded == /\ local_depth = merge_local_depth /\ ~IsEmpty(merge_bucket)
                        /\ bucket_page_id # held
       IN IF local_depth = merge_local_depth /\ (IsEmpty(merge_bucket) \/ IsEmpty(bucket))
          THEN IF IsEmpty(merge_bucket)
               THEN LET t1 == DeletePageOf(t, merge_page_id, {held, merge_page_id})
                        d1 == DecrLocalDepth(DecrLocalDepth(directory, bucket_index),
                                             merge_bucket_index)
                        d2 == SetBucketPageId(d1, merge_bucket_index, bucket_page_id)
                        count == Pow2(global_depth - local_depth + 1)
                        mask == GetLocalDepthMask(d2, bucket_index)
                        stride == Pow2(local_depth - 1)
                        d3 == FillSlots(d2, BitAnd(bucket_index, mask), stride, count,
                                        GetLocalDepth(d2, bucket_index), bucket_page_id, 0)
                        r == MergeLoop(SetPage(t1, directory_page_id, d3),
                                       directory_page_id, bucket_page_id, bucket_index, held)
                    IN [table |-> r.table, stale |-> r.stale \/ unguarded]
               ELSE LET t1 == DeletePageOf(t, bucket_page_id, {held, merge_page_id})
                        d1 == DecrLocalDepth(DecrLocalDepth(directory, merge_bucket_index),
                                             bucket_index)
                        d2 == SetBucketPageId(d1, bucket_index,
                                              GetBucketPageId(d1, merge_bucket_index))
                        count == Pow2(global_depth - merge_local_depth + 1)
                        mask == GetLocalDepthMask(d2, merge_bucket_index)
                        stride == Pow2(merge_local_depth - 1)
                        d3 == FillSlots(d2, BitAnd(merge_bucket_index, mask), stride, count,
                                        GetLocalDepth(d2, merge_bucket_index),
                                        GetBucketPageId(d2, merge_bucket_index), 0)
                        r == MergeLoop(SetPage(t1, directory_page_id, d3),
                                       directory_page_id,
                                       GetBucketPageId(d3, merge_bucket_index),
                                       merge_bucket_index, held)
                    IN [table |-> r.table, stale |-> r.stale \/ unguarded]
          ELSE [table |-> t, stale |-> unguarded]

\* A Remove that reports false although it took the key out
RemoveEffect_Silent(t, key) ==
  LET header == PageAt(t, header_page_id)
      directory_page_id == GetDirectoryPageId(header, HashToDirectoryIndex(header, Hash(key)))
      directory == PageAt(t, directory_page_id)
      bucket_page_id == GetBucketPageId(directory, HashToBucketIndex(directory, Hash(key)))
  IN IF directory_page_id = INVALID_PAGE_ID \/ bucket_page_id = INVALID_PAGE_ID
     THEN [table |-> t, ret |-> FALSE]
     ELSE [table |-> SetPage(t, bucket_page_id,
                             BucketRemove(PageAt(t, bucket_page_id), key).bucket),
           ret |-> FALSE]

\* DiskExtendibleHashTable::Remove: [table, ret, stale]
RemoveEffect(t, key) ==
  LET hash == Hash(key)
      header == PageAt(t, header_page_id)
      directory_index == HashToDirectoryIndex(header, hash)
      directory_page_id == GetDirectoryPageId(header, directory_index)
  IN IF directory_page_id = INVALID_PAGE_ID
     THEN [table |-> t, ret |-> FALSE, stale |-> FALSE]
     ELSE LET directory == PageAt(t, directory_page_id)
              bucket_index == HashToBucketIndex(directory, hash)
              bucket_page_id == GetBucketPageId(directory, bucket_index)
          IN IF bucket_page_id = INVALID_PAGE_ID
             THEN [table |-> t, ret |-> FALSE, stale |-> FALSE]
             ELSE LET b == BucketRemove(PageAt(t, bucket_page_id), key)
                  IN IF ~b.ret THEN [table |-> t, ret |-> FALSE, stale |-> FALSE]
                     ELSE LET m == MergeLoop(SetPage(t, bucket_page_id, b.bucket),
                                             directory_page_id, bucket_page_id,
                                             bucket_index, bucket_page_id)
                              t1 == m.table
                          IN [table |-> SetPage(t1, directory_page_id,
                                                DecrWhileCanShrink(PageAt(t1, directory_page_id))),
                              ret |-> TRUE, stale |-> m.stale]

\* DiskExtendibleHashTable::GetValue: [ret, result], result what was appended
GetValueEffect(t, key) ==
  LET hash == Hash(key)
      header == PageAt(t, header_page_id)
      directory_index == HashToDirectoryIndex(header, hash)
      directory_page_id == GetDirectoryPageId(header, directory_index)
  IN IF directory_page_id = INVALID_PAGE_ID THEN [ret |-> FALSE, result |-> <<>>]
     ELSE LET directory == PageAt(t, directory_page_id)
              bucket_index == HashToBucketIndex(directory, hash)
              bucket_page_id == GetBucketPageId(directory, bucket_index)
          IN IF bucket_page_id = INVALID_PAGE_ID THEN [ret |-> FALSE, result |-> <<>>]
             ELSE LET l == Lookup(PageAt(t, bucket_page_id), key)
                  IN IF l.found THEN [ret |-> TRUE, result |-> <<l.value>>]
                     ELSE [ret |-> FALSE, result |-> <<>>]

\* The table after its constructor; no key was inserted
InitHash ==
  /\ config \in Configs
  /\ table = <<HeaderInit(header_max_depth)>>
  /\ expect = [k \in HKeys |-> 0] /\ call = <<>>
  /\ last = NoLast /\ calls = MaxHashCalls /\ aborted = FALSE
  /\ request_queue = <<>> /\ replacer = <<>>
  /\ NoPool /\ NoRepl /\ NoSched /\ NoGuard

hashRest == <<poolVars, replacer, request_queue, aborted, replVars, schedVars, guardVars, call>>

HashCall(op, ok) ==
  /\ ~aborted /\ calls > 0 /\ calls' = calls - 1
  /\ last' = Returned(op, ok)
  /\ UNCHANGED hashRest

Insert(key, value, room) ==
  LET e == InsertEffect(table, key, value, room)
  IN /\ HashCall("Insert", e.ret)
     /\ table' = e.table
     /\ expect' = IF e.ret THEN [expect EXCEPT ![key] = value] ELSE expect
     /\ UNCHANGED config

HashRemove(key) ==
  LET e == RemoveEffect(table, key)
  IN /\ HashCall("Remove", e.ret)
     /\ table' = e.table
     /\ expect' = IF e.ret THEN [expect EXCEPT ![key] = 0] ELSE expect
     /\ UNCHANGED config

GetValue(key) ==
  /\ HashCall("GetValue", GetValueEffect(table, key).ret)
  /\ UNCHANGED <<table, expect, config>>

NextHash ==
  \/ \E key \in HKeys, value \in HValues, room \in 0 .. MaxRoom : Insert(key, value, room)
  \/ \E key \in HKeys : HashRemove(key)
  \/ \E key \in HKeys : GetValue(key)

HashSpec == InitHash /\ [][NextHash]_vars

\* ---- the same table driven by inserts and removes only, for longer runs:
\* every frame the split needs is available and one value is stored
InitDrain ==
  /\ config \in Configs
  /\ table = <<HeaderInit(header_max_depth)>>
  /\ expect = [k \in HKeys |-> 0] /\ call = <<>>
  /\ last = NoLast /\ calls = MaxDrainCalls /\ aborted = FALSE
  /\ request_queue = <<>> /\ replacer = <<>>
  /\ NoPool /\ NoRepl /\ NoSched /\ NoGuard

NextDrain ==
  \/ \E key \in HKeys : Insert(key, 1, MaxRoom)
  \/ \E key \in HKeys : HashRemove(key)

DrainSpec == InitDrain /\ [][NextDrain]_vars

\* ---- a directory page alone, kept in table[1], under the calls Insert and
\* Remove make on it. Its slot 0 refers to bucket page 1; the bucket page a
\* split adds takes the number of the call plus 1.
ThePage == table[1]

InitDir ==
  /\ \E max_depth \in 1 .. MaxDirDepth :
       table = <<SetBucketPageId(DirInit(max_depth), 0, 1)>>
  /\ expect = <<>> /\ config = <<>> /\ call = <<>>
  /\ last = NoLast /\ calls = MaxDirCalls /\ aborted = FALSE
  /\ request_queue = <<>> /\ replacer = <<>>
  /\ NoPool /\ NoRepl /\ NoSched /\ NoGuard

DirCall(op) ==
  /\ calls > 0 /\ calls' = calls - 1
  /\ last' = Returned(op, TRUE)
  /\ UNCHANGED <<expect, config, hashRest>>

\* Insert lines 136-139
DirGrow ==
  /\ ThePage.global_depth < ThePage.max_depth
  /\ table' = <<IncrGlobalDepth(ThePage)>>
  /\ DirCall("IncrGlobalDepth")

\* Remove lines 293-295
DirShrink ==
  /\ CanShrink(ThePage)
  /\ table' = <<DecrGlobalDepth(ThePage)>>
  /\ DirCall("DecrGlobalDepth")

\* Insert lines 140-155 for a bucket whose local depth is below the global depth
DirSplit(bucket_index) ==
  /\ bucket_index < Pow2(ThePage.global_depth)
  /\ GetLocalDepth(ThePage, bucket_index) < ThePage.global_depth
  /\ LET new_bucket_page_id == (MaxDirCalls - calls) + 2
         split_bucket_idx == GetSplitImageIndex(ThePage, bucket_index)
         d2 == IncrLocalDepth(ThePage, bucket_index)
         local_depth == GetLocalDepth(d2, bucket_index)
         d3 == SetBucketPageId(SetLocalDepth(d2, split_bucket_idx, local_depth),
                               split_bucket_idx, new_bucket_page_id)
         count == Pow2(ThePage.global_depth - local_depth)
         mask == GetLocalDepthMask(d3, split_bucket_idx)
         stride == Pow2(local_depth)
     IN table' = <<FillSlots(d3, BitAnd(split_bucket_idx, mask), stride, count,
                             local_depth, new_bucket_page_id, 0)>>
  /\ DirCall("IncrLocalDepth")

NextDir ==
  \/ DirGrow
  \/ DirShrink
  \/ \E bucket_index \in DirSlots : DirSplit(bucket_index)

DirSpec == InitDir /\ [][NextDir]_vars

\* ---- the table under concurrent callers. A call is a sequence of steps, one
\* for each page latch it waits for or drops; what a call does between two
\* such points it does under the latches it holds. The pool has room for every
\* page and one value is stored.
CKeys == 0 .. MaxConcKey

NoCall ==
  [pc |-> "idle", op |-> "none", key |-> 0, directory_page_id |-> INVALID_PAGE_ID,
   bucket_page_id |-> INVALID_PAGE_ID, held |-> {}, stable |-> FALSE]

InitConc ==
  /\ config \in Configs
  /\ table = <<HeaderInit(header_max_depth)>>
  /\ expect = [k \in HKeys |-> 0]
  /\ call = [t \in Threads |-> NoCall]
  /\ last = NoLast /\ calls = MaxConcCalls /\ aborted = FALSE
  /\ request_queue = <<>> /\ replacer = <<>>
  /\ NoPool /\ NoRepl /\ NoSched /\ NoGuard

concRest == <<config, poolVars, replacer, request_queue, aborted, replVars, schedVars,
              guardVars>>

\* What a step of thread t leaves in last: the thread, and the call and its
\* result for a return, the place the thread moved to otherwise
Moved(t, op, ok) == [op |-> op, ok |-> ok, by |-> t]

\* FetchPageRead for GetValue, FetchPageWrite for Insert and Remove
Mode(op) == IF op = "GetValue" THEN "R" ELSE "W"

\* rwlatch_ of page p lets thread t in: no other thread holds it, or both read
CanLatch(t, p, mode) ==
  \A u \in Threads \ {t} : \A h \in call[u].held :
    h[1] = p => (mode = "R" /\ h[2] = "R")

\* A return that leaves the call's guards latched
ReleaseAll_Leak(t) == call[t].held

\* The latches thread t holds after the destructors of its guards ran
ReleaseAll(t) == {}

\* The call of thread t enters: stable tells a GetValue that its key is in the
\* table now; it is withdrawn when another call removes the key.
Begin(t, op, key) ==
  /\ calls > 0 /\ call[t].pc = "idle"
  /\ calls' = calls - 1
  /\ call' = [call EXCEPT ![t] = [@ EXCEPT !.pc = "header", !.op = op, !.key = key,
                                           !.directory_page_id = INVALID_PAGE_ID,
                                           !.bucket_page_id = INVALID_PAGE_ID,
                                           !.stable = (op = "GetValue" /\ expect[key] # 0)]]
  /\ last' = Moved(t, "begin", FALSE)
  /\ UNCHANGED <<table, expect, concRest>>

\* The call of thread t returns ret and leaves table t1
Finish(t, t1, ret) ==
  LET c == call[t]
      removed == c.op = "Remove" /\ ret
  IN /\ table' = t1
     /\ expect' = IF c.op = "Insert" /\ ret THEN [expect EXCEPT ![c.key] = 1]
                  ELSE IF removed THEN [expect EXCEPT ![c.key] = 0]
                  ELSE expect
     /\ call' = [u \in Threads |->
                   IF u = t THEN [NoCall EXCEPT !.held = ReleaseAll(t)]
                   ELSE IF removed /\ call[u].key = c.key
                        THEN [call[u] EXCEPT !.stable = FALSE]
                   ELSE call[u]]
     /\ last' = Moved(t, c.op, ret)
     /\ UNCHANGED <<calls, concRest>>

Goto(t, pc1, held1, directory_page_id, bucket_page_id) ==
  /\ call' = [call EXCEPT ![t] = [@ EXCEPT !.pc = pc1, !.held = held1,
                                           !.directory_page_id = directory_page_id,
                                           !.bucket_page_id = bucket_page_id]]
  /\ last' = Moved(t, pc1, FALSE)
  /\ UNCHANGED <<table, expect, calls, concRest>>

\* FetchPageRead / FetchPageWrite of the header page and what follows up to
\* header_page.Drop(); an Insert that finds no directory goes on to
\* InsertToNewDirectory with the header latched
LatchHeader(t) ==
  LET c == call[t]
      header == PageAt(table, header_page_id)
      directory_page_id ==
        GetDirectoryPageId(header, HashToDirectoryIndex(header, Hash(c.key)))
  IN /\ c.pc = "header" /\ CanLatch(t, header_page_id, Mode(c.op))
     /\ IF directory_page_id = INVALID_PAGE_ID
        THEN IF c.op = "Insert"
             THEN Goto(t, "create", {<<header_page_id, "W">>}, INVALID_PAGE_ID,
                       INVALID_PAGE_ID)
             ELSE Finish(t, table, FALSE)
        ELSE Goto(t, "drop_header", {<<header_page_id, Mode(c.op)>>}, directory_page_id,
                  INVALID_PAGE_ID)

\* header_page.Drop()
DropHeader(t) ==
  /\ call[t].pc = "drop_header"
  /\ Goto(t, "directory", {}, call[t].directory_page_id, INVALID_PAGE_ID)

\* FetchPageRead / FetchPageWrite of the directory page and what follows up
\* to the fetch of the bucket page (GetValue: up to dirctory_page_r.Drop());
\* an Insert that finds no bucket goes on to InsertToNewBucket with the
\* directory latched
LatchDirectory(t) ==
  LET c == call[t]
      directory == PageAt(table, c.directory_page_id)
      bucket_page_id == GetBucketPageId(directory, HashToBucketIndex(directory, Hash(c.key)))
  IN /\ c.pc = "directory" /\ CanLatch(t, c.directory_page_id, Mode(c.op))
     /\ IF bucket_page_id = INVALID_PAGE_ID
        THEN IF c.op = "Insert"
             THEN Goto(t, "create", {<<c.directory_page_id, "W">>}, c.directory_page_id,
                       INVALID_PAGE_ID)
             ELSE Finish(t, table, FALSE)
        ELSE Goto(t, IF c.op = "GetValue" THEN "drop_directory" ELSE "bucket",
                  {<<c.directory_page_id, Mode(c.op)>>}, c.directory_page_id,
                  bucket_page_id)

\* dirctory_page_r.Drop() of GetValue
DropDirectory(t) ==
  /\ call[t].pc = "drop_directory"
  /\ Goto(t, "bucket", {}, call[t].directory_page_id, call[t].bucket_page_id)

\* FetchPageRead / FetchPageWrite of the bucket page
LatchBucket(t) ==
  LET c == call[t]
  IN /\ c.pc = "bucket" /\ CanLatch(t, c.bucket_page_id, Mode(c.op))
     /\ Goto(t, "body", c.held \cup {<<c.bucket_page_id, Mode(c.op)>>},
             c.directory_page_id, c.bucket_page_id)

\* The rest of the call and its return. Insert and Remove hold the write latch
\* of the directory: the pages they fetch from here on are new pages and
\* buckets of this directory, which only a reader can have latched, and
\* Remove asks for read latches only. GetValue looks into the page it latched.
\* An Insert at "create" holds the latch of the page whose slot is empty, so
\* the slot is still empty and the call takes InsertToNewDirectory or
\* InsertToNewBucket.
Body(t) ==
  LET c == call[t]
      page == PageAt(table, c.bucket_page_id)
  IN /\ c.pc \in {"body", "create"}
     /\ IF c.op = "GetValue"
        THEN Finish(t, table, page.kind = "bucket" /\ Lookup(page, c.key).found)
        ELSE IF c.op = "Insert"
        THEN LET e == InsertEffect(table, c.key, 1, MaxRoom)
             IN Finish(t, e.table, e.ret)
        ELSE LET e == RemoveEffect(table, c.key)
             IN Finish(t, e.table, e.ret)

Step(t) ==
  \/ LatchHeader(t) \/ DropHeader(t) \/ LatchDirectory(t) \/ DropDirectory(t)
  \/ LatchBucket(t) \/ Body(t)

NextConc ==
  \/ \E t \in Threads, key \in CKeys : Begin(t, "GetValue", key)
  \/ \E t \in Threads, key \in CKeys : Begin(t, "Insert", key)
  \/ \E t \in Threads, key \in CKeys : Begin(t, "Remove", key)
  \/ \E t \in Threads : LatchHeader(t)
  \/ \E t \in Threads : DropHeader(t)
  \/ \E t \in Threads : LatchDirectory(t)
  \/ \E t \in Threads : DropDirectory(t)
  \/ \E t \in Threads : LatchBucket(t)
  \/ \E t \in Threads : Body(t)

ConcSpec == InitConc /\ [][NextConc]_vars

\* Thread t is inside a call and is not waiting: the latch it asks for next
\* is free for it, or its next step asks for none.
Ready(t) ==
  LET c == call[t]
  IN \/ c.pc = "header" /\ CanLatch(t, header_page_id, Mode(c.op))
     \/ c.pc = "directory" /\ CanLatch(t, c.directory_page_id, Mode(c.op))
     \/ c.pc = "bucket" /\ CanLatch(t, c.bucket_page_id, Mode(c.op))
     \/ c.pc \in {"drop_header", "drop_directory", "body", "create"}

\* The steps of Step(t), told by the thread they leave in last: thread t was
\* ready and is the one that moved, and not by entering a call.
Sched(t) ==
  /\ Ready(t)
  /\ last' \in {Moved(t, op, ok) : op \in {"drop_header", "directory", "drop_directory",
                                            "bucket", "body", "create", "GetValue",
                                            "Insert", "Remove"},
                                   ok \in BOOLEAN}

\* A thread that is not waiting for a latch is running: it takes its step.
\* Every step of a call changes last, so this is WF_vars(Step(t)).
ConcFairSpec == ConcSpec /\ \A t \in Threads : WF_last(Sched(t))

\* The steps fairness is stated for are the steps of the calls.
SchedIsStep == [][\A t \in Threads : (Sched(t) /\ last' # last) <=> Step(t)]_vars


\* ============================== claims =================================
Idle == \A t \in Threads : pc[t] = "idle"
InFreeList(f) == \E i \in 1 .. Len(free_list) : free_list[i] = f
\* frame f hosts page p: it is in use and its page_id_ field is p
Hosts(f, p) == ~InFreeList(f) /\ pages[f].page_id = p
Resident(f) == \E p \in PageIds : page_table[p] = f

\* C1: between calls, page_table[p] = f holds exactly when frame f hosts page
\* p (so no page id is hosted by two frames and every hosted page has its
\* entry).
C1_PageTableBijective ==
  (Idle /\ ~aborted) =>
    \A p \in PageIds, f \in Frames : (page_table[p] = f) <=> Hosts(f, p)

\* C2: a frame with pin_count > 0 is not evictable in the replacer, and the
\* frame NewPage/FetchPage would take for another page (free list head, else
\* the replacer's victim) has pin_count 0.
C2_PinnedNotEvictable ==
  /\ \A f \in Frames : pages[f].pin_count > 0 => ~replacer.node_store[f].is_evictable
  /\ PickFrame.frame >= 0 => pages[PickFrame.frame].pin_count = 0

\* NewPage has just returned a page beyond the pool's first PoolSize pages in
\* one frame while an older page is still pinned in another frame
C2_Witness ==
  /\ last = Returned("NewPage", TRUE)
  /\ next_page_id > PoolSize
  /\ free_list = <<>>
  /\ \E f, g \in Frames :
       /\ f # g
       /\ pages[f].page_id = next_page_id - 1 /\ pages[f].pin_count = 1
       /\ pages[g].page_id < next_page_id - 1 /\ pages[g].pin_count > 0
       /\ page_table[pages[g].page_id] = g

\* C3: when NewPage or FetchPage reuses, for another page, a frame whose page
\* is dirty, the frame keeps the old page id until the write-back has
\* completed, and the completed write carried the old page id and the
\* contents the frame had when it was chosen.
C3_WriteBeforeReuse ==
  \A t \in Threads :
    (pc[t] \in {"new_flush", "fetch_flush"} /\ loc[t].page # loc[t].old_pid) =>
      /\ pages[loc[t].frame].page_id = loc[t].old_pid
      /\ done[t] => wb[t] = [is_write |-> TRUE, page_id |-> loc[t].old_pid,
                             data |-> loc[t].old_data]

\* FetchPage returns to thread t a pointer for page p (in holds'[t][p])
FetchReturns(t, p) ==
  /\ FetchPage(t, p) \/ FetchPageAfterWait(t) \/ FetchPageAfterRead(t)
  /\ holds[t][p] = -1 /\ holds'[t][p] # -1

\* the bytes last written to p, once every holder that modified p has unpinned
\* it with is_dirty = true; -1 if there are none
Expect(p) == IF \A u \in Threads : p \notin wrote[u] THEN logical[p] ELSE -1

\* C4: a FetchPage of p returns a frame holding the bytes last written to p by
\* holders that have all unpinned with is_dirty = true.
C4_RoundTrip ==
  [][\A t \in Threads, p \in PageIds :
       (FetchReturns(t, p) /\ Expect(p) # -1) =>
          pages'[holds'[t][p]].data = Expect(p)]_vars

\* C5: a FetchPage that returns a page returns a frame whose page_id field is
\* the requested page id at the return.
C5_FetchReturnsRequested ==
  [][\A t \in Threads, p \in PageIds :
       FetchReturns(t, p) => pages'[holds'[t][p]].page_id = p]_vars

\* C6: between BPM operations, Size() is the number of resident frames with
\* pin_count 0 that are marked evictable.
C6_ReplacerSize ==
  (Idle /\ ~aborted) =>
    Size(replacer) = Cardinality({f \in Frames : /\ Resident(f)
                                                  /\ pages[f].pin_count = 0
                                                  /\ replacer.node_store[f].is_evictable})

PoolFullOfPinned == free_list = <<>> /\ \A f \in Frames : pages[f].pin_count > 0

\* C7: NewPage returns null exactly when the free list is empty and every
\* frame is pinned, and then changes no BPM state.
C7_NewPageNull ==
  [][\A t \in Threads :
       NewPage(t) =>
         /\ (pc'[t] = "idle" /\ ~aborted' /\ last'.op = "NewPage" /\ ~last'.ok)
              <=> PoolFullOfPinned
         /\ PoolFullOfPinned => UNCHANGED bpmState]_vars

\* C8: UnpinPage on a resident page with pin_count > 0 decrements the count by
\* one, marks the frame evictable exactly when it reaches 0, ORs is_dirty in
\* and returns true; otherwise it returns false and leaves pin counts, dirty
\* bits, page table and replacer unchanged.
C8_UnpinPage ==
  [][\A t \in Threads, p \in PageIds, d \in BOOLEAN :
       UnpinPage(t, p, d) =>
         IF page_table[p] # -1 /\ pages[page_table[p]].pin_count > 0
         THEN LET f == page_table[p]
              IN /\ pages'[f].pin_count = pages[f].pin_count - 1
                 /\ replacer'.node_store[f].is_evictable <=> (pages'[f].pin_count = 0)
                 /\ pages'[f].is_dirty = (pages[f].is_dirty \/ d)
                 /\ last' = Returned("UnpinPage", TRUE)
         ELSE /\ last' = Returned("UnpinPage", FALSE)
              /\ UNCHANGED <<pages, page_table, replacer>>]_vars

\* C9: DeletePage returns true and changes nothing for a page that is not
\* resident, returns false and changes nothing for a pinned page; otherwise
\* it removes the page-table entry, drops the frame from the replacer and
\* appends the frame to the free list once, and the frame stays on the free
\* list until the write-back of its dirty page has completed.
C9_DeleteEffect ==
  \A t \in Threads, p \in PageIds :
    DeletePage(t, p) =>
      IF page_table[p] = -1
      THEN last' = Returned("DeletePage", TRUE) /\ UNCHANGED bpmState
      ELSE IF pages[page_table[p]].pin_count # 0
      THEN last' = Returned("DeletePage", FALSE) /\ UNCHANGED bpmState
      ELSE LET f == page_table[p]
           IN aborted' \/
              /\ page_table' = [page_table EXCEPT ![p] = -1]
              /\ ~Valid(replacer'.node_store[f])
              /\ free_list' = Append(free_list, f)
              /\ ~InFreeList(f)

C9_FrameFreeAfterWriteBack ==
  \A t \in Threads : pc[t] = "delete_flush" => InFreeList(loc[t].frame)

C9_DeletePage == [][C9_DeleteEffect /\ C9_FrameFreeAfterWriteBack']_vars

\* C10: FlushPage of a resident page writes the frame's contents to disk under
\* that page id whether dirty or not, clears the dirty bit and returns true;
\* FlushPage of a page that is not resident returns false and issues no write.
C10_FlushPage ==
  [][\A t \in Threads :
       /\ \A p \in PageIds :
            FlushPage(t, p) =>
              IF page_table[p] # -1
              THEN /\ pc'[t] = "flush_io"
                   /\ request_queue' =
                        Append(request_queue, [is_write |-> TRUE, frame |-> page_table[p],
                                               page_id |-> p, owner |-> t])
              ELSE /\ last' = Returned("FlushPage", FALSE)
                   /\ request_queue' = request_queue
       /\ FlushPageAfterFlush(t) =>
            /\ wb[t].is_write /\ wb[t].page_id = loc[t].page
            /\ disk[loc[t].page] = wb[t].data
            /\ ~pages'[loc[t].frame].is_dirty
            /\ last' = Returned("FlushPage", TRUE)]_vars

InFlight(queue, f) == \E i \in 1 .. Len(queue) : queue[i].frame = f

\* FetchPage returns to thread t the frame page p was found in (a hit, at once
\* or after the wait on avaliable_)
FetchHitReturns(t, p) ==
  /\ FetchPage(t, p) \/ FetchPageAfterWait(t)
  /\ holds[t][p] = -1 /\ holds'[t][p] # -1

\* C12: a FetchPage that hits a frame does not return it while a disk read or
\* write issued for that frame is still in flight.
C12_NoReturnDuringIO ==
  [][\A t \in Threads, p \in PageIds :
       FetchHitReturns(t, p) => ~InFlight(request_queue', holds'[t][p])]_vars

\* C13: while a FetchPage miss is still waiting for the victim's write-back or
\* for the read of the requested page, the page table has no entry for the
\* requested page.
C13_EntryAfterIO ==
  \A t \in Threads :
    pc[t] \in {"fetch_flush", "fetch_read"} => page_table[loc[t].page] = -1


\* ---------------------------------------------- replacer: the reference
\* A frame is tracked from its first RecordAccess until Evict returns it or
\* Remove drops it; ref_hist keeps the times of its accesses since then.
RefTracked(f) == ref_hist[f] # <<>>
Evictable(f) == replacer.node_store[f].is_evictable
RefCandidates == {f \in RFrames : RefTracked(f) /\ Evictable(f)}
\* fewer than k accesses: backward k-distance +infinity
RefInfinite(f) == Len(ref_hist[f]) < replacer.k
\* the time of the k-th most recent access
RefKth(f) == ref_hist[f][(Len(ref_hist[f]) - replacer.k) + 1]
RefVictim ==
  LET inf == {f \in RefCandidates : RefInfinite(f)}
  IN IF inf # {}
     THEN CHOOSE f \in inf : \A g \in inf : ref_hist[f][1] <= ref_hist[g][1]
     ELSE CHOOSE f \in RefCandidates : \A g \in RefCandidates : RefKth(f) <= RefKth(g)

\* C14: when some tracked frame is evictable, Evict returns the one with the
\* largest backward k-distance: a frame with fewer than k accesses if there
\* is one, the earliest first access among those, otherwise the frame whose
\* k-th most recent access is oldest.
C14_EvictLargestKDistance ==
  [][(CallEvict /\ RefCandidates # {}) => evicted' = RefVictim]_vars

\* C15: Size() is the number of frames that are tracked and marked evictable,
\* and when Size() > 0 a call of Evict succeeds.
C15_SizeCountsEvictable ==
  /\ Size(replacer) = Cardinality(RefCandidates)
  /\ Size(replacer) > 0 => Evict(replacer).frame # -1

\* What RecordAccess leaves for a frame it takes as new: one access in the
\* node's history, the frame at the tail of the list of frames with fewer
\* than k accesses, not evictable.
TreatedAsNew(r, f) ==
  /\ ~r.crashed
  /\ QUEUE_SIZE(r.node_store[f].start, r.node_store[f].end, r.node_store[f].k) = 1
  /\ r.node_store[f].k = r.k
  /\ r.f_list # <<>> /\ r.f_list[Len(r.f_list)] = f
  /\ ~r.node_store[f].is_evictable

\* C16: a successful Evict returns a frame that was tracked and evictable,
\* decrements Size() by exactly one, and discards the frame's history: a
\* RecordAccess of that frame made afterwards takes it as a new frame with a
\* single access.
C16_EvictDiscardsHistory ==
  [][(CallEvict /\ evicted' # -1) =>
       /\ RefTracked(evicted') /\ Evictable(evicted')
       /\ Size(replacer') = Size(replacer) - 1
       /\ TreatedAsNew(RecordAccess(replacer', evicted'), evicted')]_vars

InList(r, f) == \E i \in 1 .. Len(r.f_list) : r.f_list[i] = f
InHeap(r, f) == \E i \in 1 .. Len(r.r_heap) : r.r_heap[i] = f

\* C17: Remove of a tracked frame that is not evictable aborts; Remove of a
\* tracked evictable frame returns, drops the frame and its history and
\* decrements Size() by one.
C17_RemoveTracked ==
  [][\A f \in RFrames :
       (CallRemove(f) /\ RefTracked(f)) =>
         IF ~Evictable(f) THEN aborted'
         ELSE /\ ~aborted'
              /\ ~InList(replacer', f) /\ ~InHeap(replacer', f)
              /\ Size(replacer') = Size(replacer) - 1
              /\ ~Valid(replacer'.node_store[f])]_vars

\* C18: Remove of a frame the replacer is not tracking (never accessed, or
\* evicted or removed since its last access) returns without aborting and
\* leaves the replacer's state as it was.
C18_RemoveUntracked ==
  [][\A f \in RFrames :
       (CallRemove(f) /\ ~RefTracked(f)) => (~aborted' /\ replacer' = replacer)]_vars

\* The replacer r with frame f's evictable mark and the count put back to
\* what they are in q: equal to q when nothing else differs.
SameButMark(r, q, f) ==
  [r EXCEPT !.node_store[f].is_evictable = q.node_store[f].is_evictable,
            !.curr_size = q.curr_size] = q

\* C19: SetEvictable(f, false) on a tracked evictable frame takes f out of
\* Evict's candidates and out of Size(); SetEvictable(f, true) on a tracked
\* non-evictable frame puts it back with the history, the k-distance and the
\* place in the eviction order it had, so that Evict returns it when it is the
\* only candidate; SetEvictable with the value the frame already has changes
\* nothing.
C19_SetEvictable ==
  [][\A f \in RFrames, b \in BOOLEAN :
       (CallSetEvictable(f, b) /\ RefTracked(f)) =>
         IF b = Evictable(f) THEN replacer' = replacer
         ELSE /\ SameButMark(replacer', replacer, f)
              /\ replacer'.node_store[f].is_evictable = b
              /\ Size(replacer') = Size(replacer) + (IF b THEN 1 ELSE -1)
              /\ ~b => Evict(replacer').frame # f
              /\ (b /\ RefCandidates' = {f}) => Evict(replacer').frame = f]_vars

\* ------------------------------------------------------- disk schedulers
Joined == dtor /\ \A w \in Workers : worker[w].pc = "exit"

\* C20: in both variants no request's I/O is performed twice, a request's
\* promise is fulfilled only when its I/O has been performed, and no request
\* passed to Schedule is dropped: when the destructor has joined the workers
\* the I/O of every scheduled request has been performed once.
C20_ExactlyOnce ==
  /\ \A r \in 1 .. scheduled : io_count[r] <= 1
  /\ \A r \in 1 .. scheduled : promise[r] => io_count[r] = 1
  /\ Joined => \A r \in 1 .. scheduled : io_count[r] = 1

\* C21: the single worker hands requests to the disk manager in the order
\* they were put on the queue: when the I/O of a request is performed, the
\* I/O of every request put before it has been performed; and at most one
\* request is between its Get and its set_value at a time.
C21_SingleFIFO ==
  [][variant = "single" =>
       /\ \A w \in 1 .. MaxWorkers :
            WorkerIO(w) => \A r \in 1 .. (worker[w].req - 1) : io_count[r] = 1
       /\ Cardinality({w \in Workers : worker'[w].pc \in {"io", "set"}}) <= 1]_vars
C21_Witness ==
  /\ variant = "single" /\ scheduled = MaxRequests
  /\ \A r \in Requests : io_count[r] = 1 /\ promise[r]

\* C22: when the destructor has joined the workers, every request scheduled
\* before it started has had its I/O performed and its promise fulfilled, in
\* the single-worker and in the pooled variant. (The destructor returns from
\* join() only when every worker has left its loop: that is Joined.)
C22_DestructorDrains ==
  Joined => \A r \in 1 .. scheduled : io_count[r] = 1 /\ promise[r]

\* ------------------------------------------------------------ page guards
AllGuardsGone == \A g \in Guards : ~guard[g].alive
\* No page was released more often than it was acquired, and when every
\* guard has been destroyed each pin and each latch was released once.
ReleasedOnce ==
  /\ \A f \in Frames : /\ tally["unpin"][f] <= tally["pin"][f]
                       /\ tally["runlatch"][f] <= tally["rlatch"][f]
                       /\ tally["wunlatch"][f] <= tally["wlatch"][f]
  /\ AllGuardsGone => \A f \in Frames : /\ tally["unpin"][f] = tally["pin"][f]
                                        /\ tally["runlatch"][f] = tally["rlatch"][f]
                                        /\ tally["wunlatch"][f] = tally["wlatch"][f]
\* The step released the pin on frame f and the latch a guard of that kind holds
ReleasedBy(kind, f) ==
  /\ tally'["unpin"][f] = tally["unpin"][f] + 1
  /\ kind = "read" => tally'["runlatch"][f] = tally["runlatch"][f] + 1
  /\ kind = "write" => tally'["wunlatch"][f] = tally["wunlatch"][f] + 1

\* C23: whatever moves, assignments, Drops and destructions are applied to
\* the guards, a page is unpinned once per acquisition and a latch released
\* once per latching; move-assigning into a guard that holds a page releases
\* the pin and the latch of the page it held.
C23_ReleasedOnce ==
  [][/\ ~aborted'
     /\ ReleasedOnce'
     /\ \A g \in Guards, h \in Guards :
          (MoveAssign(g, h) /\ g # h /\ guard[g].b.page # -1) =>
            ReleasedBy(guard[g].kind, guard[g].b.page)]_vars

\* C24: Drop and the destructor of a guard that was moved from or dropped
\* unpin nothing and unlatch nothing.
C24_InertGuards ==
  [][\A g \in Guards :
       ((Drop(g) \/ DestroyGuard(g)) /\ guard[g].inert) =>
         (~aborted' /\ tally' = tally /\ pages' = pages /\ rwlatch' = rwlatch)]_vars
\* the second of two Drops of a read guard that held a page
C24_Witness ==
  /\ last = Returned("Drop", FALSE) /\ calls = MaxGuardCalls - 3
  /\ \E g \in Guards :
       /\ guard[g].alive /\ guard[g].inert /\ guard[g].kind = "read"
       /\ \A h \in Guards \ {g} : ~guard[h].alive
  /\ \E f \in Frames : tally["pin"][f] = 1 /\ tally["unpin"][f] = 1
                       /\ tally["rlatch"][f] = 1 /\ tally["runlatch"][f] = 1

\* C25: a step that releases a write guard's page (it unlatches the write
\* latch of a frame) unpins the frame and leaves its dirty bit set.
C25_WriteGuardDirty ==
  [][\A f \in Frames :
       tally'["wunlatch"][f] > tally["wunlatch"][f] =>
         /\ ~aborted'
         /\ tally'["unpin"][f] = tally["unpin"][f] + 1
         /\ pages'[f].is_dirty]_vars

\* one page was fetched through FetchPageWrite, the other through
\* FetchPageBasic and UpgradeWrite; both write guards were released
C25_Witness ==
  /\ calls = MaxGuardCalls - 5
  /\ \E g \in Guards : guard[g].alive /\ guard[g].kind = "basic" /\ guard[g].inert
  /\ \A f \in Frames :
       /\ tally["pin"][f] = 1 /\ tally["unpin"][f] = 1
       /\ tally["wlatch"][f] = 1 /\ tally["wunlatch"][f] = 1
       /\ pages[f].is_dirty

\* The directory pages and the bucket pages the table holds
DirPages == {p \in 0 .. Len(table) - 1 : PageAt(table, p).kind = "directory"}
BucketPages == {p \in 0 .. Len(table) - 1 : PageAt(table, p).kind = "bucket"}
Entries(k) ==
  {e \in BucketPages \X (1 .. MaxBucketSize) :
     e[2] <= Len(PageAt(table, e[1]).array) /\ PageAt(table, e[1]).array[e[2]].key = k}

Saturated(key) ==
  LET header == PageAt(table, header_page_id)
      directory_page_id == GetDirectoryPageId(header, HashToDirectoryIndex(header, Hash(key)))
      directory == PageAt(table, directory_page_id)
      bucket_index == HashToBucketIndex(directory, Hash(key))
  IN /\ directory_page_id # INVALID_PAGE_ID
     /\ GetBucketPageId(directory, bucket_index) # INVALID_PAGE_ID
     /\ IsFull(PageAt(table, GetBucketPageId(directory, bucket_index)))
     /\ GetLocalDepth(directory, bucket_index) = directory.global_depth
     /\ directory.global_depth = directory_max_depth

\* C27: an Insert of a key that is not in the table, the pool having room for
\* the pages the call asks for, returns false exactly when the target bucket
\* is full and its local depth, the global depth and directory_max_depth are
\* equal; when it returns false it leaves every page as it was and no new
\* page allocated.
C27_InsertFalse ==
  [][\A key \in HKeys, value \in HValues, room \in 0 .. MaxRoom :
       (/\ Insert(key, value, room)
        /\ InsertEffect(table, key, value, room).exit # "nomem"
        /\ expect[key] = 0) =>
         /\ ~last'.ok <=> Saturated(key)
         /\ ~last'.ok => table' = table]_vars

\* The pairs the bucket pages hold
AllEntries ==
  {e \in HKeys \X HValues :
     \E p \in BucketPages : \E i \in 1 .. Len(PageAt(table, p).array) :
       PageAt(table, p).array[i] = [key |-> e[1], value |-> e[2]]}

C29_Directory ==
  \A p \in DirPages :
    LET d == PageAt(table, p)
        size == Pow2(d.global_depth)
    IN /\ d.global_depth <= d.max_depth
       /\ \A i \in 0 .. size - 1 :
            /\ 0 <= d.local_depths[i] /\ d.local_depths[i] <= d.global_depth
            /\ \A j \in 0 .. size - 1 :
                 (i % Pow2(d.local_depths[i]) = j % Pow2(d.local_depths[i])) =>
                   /\ d.bucket_page_ids[i] = d.bucket_page_ids[j]
                   /\ d.local_depths[i] = d.local_depths[j]

\* after a Remove that merged, a directory of depth 2 has a bucket of local
\* depth 1 and two of local depth 2
C29_Witness ==
  /\ last = Returned("Remove", TRUE)
  /\ \E p \in DirPages :
       LET d == PageAt(table, p)
       IN /\ d.global_depth = 2
          /\ \E i \in 0 .. 3 : d.local_depths[i] = 1
          /\ \E i \in 0 .. 3 : d.local_depths[i] = 2
          /\ Cardinality(BucketPages) > Cardinality({d.bucket_page_ids[i] : i \in 0 .. 3})

BucketsBounded ==
  \A p \in BucketPages :
    LET b == PageAt(table, p)
    IN /\ 0 <= Len(b.array) /\ Len(b.array) <= b.max_size
       /\ \A i \in 1 .. Len(b.array), j \in 1 .. Len(b.array) :
            b.array[i].key = b.array[j].key => i = j

\* C30: after every call each bucket has 0 <= size <= max_size and no two
\* entries with equal keys; an Insert of a key that is present adds no entry
\* and splits no bucket: it leaves the directory and the buckets as they were.
C30_Buckets ==
  [][/\ BucketsBounded'
     /\ \A key \in HKeys, value \in HValues, room \in 0 .. MaxRoom :
          (Insert(key, value, room) /\ expect[key] # 0) => table' = table]_vars


\* C31: once every key that was inserted has been removed again, every lookup
\* fails and each directory is back at global depth 0 with one bucket, which
\* is empty.
Drained == \A k \in HKeys : expect[k] = 0
C31_Drained ==
  Drained =>
    /\ \A k \in HKeys : ~GetValueEffect(table, k).ret
    /\ \A d \in DirPages :
         /\ PageAt(table, d).global_depth = 0
         /\ GetLocalDepth(PageAt(table, d), 0) = 0
         /\ GetBucketPageId(PageAt(table, d), 0) \in BucketPages
         /\ IsEmpty(PageAt(table, GetBucketPageId(PageAt(table, d), 0)))
\* a directory with buckets of two entries grew to global depth 2 and three
\* buckets, and six calls after construction every key is removed again
C31_Witness ==
  /\ Drained /\ last = Returned("Remove", TRUE) /\ calls = MaxDrainCalls - 6
  /\ bucket_max_size = 2
  /\ Cardinality(DirPages) = 1 /\ Cardinality(BucketPages) = 3


\* bucket page p is the target of a slot below 2^global_depth of a directory
\* of table t
Referred(t, p) ==
  \E d \in 0 .. Len(t) - 1 :
    /\ PageAt(t, d).kind = "directory"
    /\ \E i \in 0 .. Pow2(PageAt(t, d).global_depth) - 1 :
         GetBucketPageId(PageAt(t, d), i) = p

\* C35: when Remove merges two buckets, the page of the absorbed bucket is
\* deleted: a bucket page that the directory referred to before the call and
\* no longer refers to after it is not resident any more.
C35_MergeDeletes ==
  [][\A key \in HKeys :
       HashRemove(key) =>
         \A p \in 0 .. Len(table) - 1 :
           (PageAt(table, p).kind = "bucket" /\ Referred(table, p) /\ ~Referred(table', p))
             => PageAt(table', p).kind = "deleted"]_vars


\* C36: the tracked frames are partitioned between the FIFO list and the
\* heap: a tracked frame is in exactly one of them, in the list exactly when
\* it has fewer than k recorded accesses and in the heap from its k-th access
\* on, for every k >= 1.
C36_Partition ==
  ~aborted =>
    \A f \in RFrames :
      RefTracked(f) =>
        /\ InList(replacer, f) # InHeap(replacer, f)
        /\ InList(replacer, f) <=> (Len(ref_hist[f]) < replacer.k)

\* C40: the heap is a max-heap on k-distance and the position index of every
\* frame in the heap is the slot that holds it.
HeapOrdered(r) ==
  \A i \in 2 .. Len(r.r_heap) :
    KDistance(r, r.r_heap[i \div 2]) >= KDistance(r, r.r_heap[i])
HeapIndexed(r) ==
  \A i \in 1 .. Len(r.r_heap) :
    r.frame_pos_type[r.r_heap[i]] = 0 /\ r.frame_pos_map[r.r_heap[i]] = i
C40_Heap == ~aborted => (HeapOrdered(replacer) /\ HeapIndexed(replacer))


\* C37: IncrGlobalDepth below max_depth doubles the directory: slot
\* i + 2^old_global_depth takes the page id and local depth of slot i for every
\* i < 2^old_global_depth and the slots below 2^old_global_depth keep theirs;
\* a DecrGlobalDepth that follows restores the global depth and leaves the
\* lower half as it was.
LowerHalfSame(d, e, n) ==
  \A i \in 0 .. n - 1 :
    /\ e.bucket_page_ids[i] = d.bucket_page_ids[i]
    /\ e.local_depths[i] = d.local_depths[i]
C37_Doubles ==
  [][DirGrow =>
       LET d == ThePage
           e == ThePage'
           n == Pow2(d.global_depth)
           back == DecrGlobalDepth(e)
       IN /\ e.global_depth = d.global_depth + 1
          /\ LowerHalfSame(d, e, n)
          /\ \A i \in 0 .. n - 1 :
               /\ e.bucket_page_ids[i + n] = d.bucket_page_ids[i]
               /\ e.local_depths[i + n] = d.local_depths[i]
          /\ back.global_depth = d.global_depth
          /\ LowerHalfSame(d, back, n)]_vars
\* a directory of global depth 2 with two buckets was just grown from depth 1
C37_Witness ==
  /\ last = Returned("IncrGlobalDepth", TRUE)
  /\ ThePage.kind = "directory" /\ ThePage.global_depth = 2
  /\ ThePage.bucket_page_ids[0] # ThePage.bucket_page_ids[1]
  /\ ThePage.bucket_page_ids[2] = ThePage.bucket_page_ids[0]
  /\ ThePage.bucket_page_ids[3] = ThePage.bucket_page_ids[1]

\* The first IncrLocalDepth call an Insert of key makes on table t: the
\* directory it is made on (after IncrGlobalDepth when the bucket's local depth
\* was the global depth) and its argument; none when the Insert does not split.
FirstSplit(t, key) ==
  LET hash == Hash(key)
      header == PageAt(t, header_page_id)
      directory_page_id == GetDirectoryPageId(header, HashToDirectoryIndex(header, hash))
      directory == PageAt(t, directory_page_id)
      bucket_index == HashToBucketIndex(directory, hash)
      bucket_page_id == GetBucketPageId(directory, bucket_index)
      local_depth == GetLocalDepth(directory, bucket_index)
  IN IF directory_page_id = INVALID_PAGE_ID THEN [splits |-> FALSE]
     ELSE IF bucket_page_id = INVALID_PAGE_ID THEN [splits |-> FALSE]
     ELSE IF ~IsFull(PageAt(t, bucket_page_id)) THEN [splits |-> FALSE]
     ELSE IF directory.global_depth = local_depth /\ local_depth = directory_max_depth
     THEN [splits |-> FALSE]
     ELSE [splits |-> TRUE,
           d |-> IF directory.global_depth = local_depth THEN IncrGlobalDepth(directory)
                 ELSE directory,
           b |-> bucket_index]

\* C39: IncrLocalDepth(b) changes only slots below 2^global_depth that
\* referred to the bucket of slot b before the call: it writes no slot at or
\* beyond 2^global_depth and no slot of another bucket.
C39_IncrLocalDepthFrame ==
  [][\A key \in HKeys, value \in HValues, room \in 1 .. MaxRoom :
       (Insert(key, value, room) /\ FirstSplit(table, key).splits) =>
         LET d == FirstSplit(table, key).d
             e == IncrLocalDepth(d, FirstSplit(table, key).b)
         IN \A i \in DirSlots :
              (e.bucket_page_ids[i] # d.bucket_page_ids[i] \/ e.local_depths[i] # d.local_depths[i])
                => /\ i < Pow2(d.global_depth)
                   /\ d.bucket_page_ids[i] = d.bucket_page_ids[FirstSplit(table, key).b]]_vars


\* C32: Insert, Remove and GetValue read and write a bucket page only while
\* the caller holds a guard on it: no call goes through a bucket pointer whose
\* guard was destroyed or dropped.
C32_BucketGuarded ==
  [][/\ \A key \in HKeys, value \in HValues, room \in 0 .. MaxRoom :
          Insert(key, value, room) => ~InsertEffect(table, key, value, room).stale
     /\ \A key \in HKeys :
          HashRemove(key) => ~RemoveEffect(table, key).stale]_vars


\* thread t holds a latch on page p
Holds(t, p) == \E h \in call[t].held : h[1] = p

\* C33: latches are taken in the order header, directory, bucket and a
\* level's latch is released only after the next level is latched: a thread
\* that has resolved a child page id and has not latched the child yet still
\* holds the latch of the parent.
C33_Crabbing ==
  \A t \in Threads :
    /\ call[t].pc = "directory" => Holds(t, header_page_id)
    /\ call[t].pc = "bucket" => Holds(t, call[t].directory_page_id)
    /\ call[t].pc = "body" => Holds(t, call[t].bucket_page_id)

C38_StableLookup ==
  [][\A t \in Threads :
       (Step(t) /\ call[t].op = "GetValue" /\ call[t].stable /\ call'[t].pc = "idle")
         => last'.ok]_vars

====
